---- MODULE Spec2Model ----
(***************************************************************************)
(* Sandboxed SQL execution and lab-session isolation engine of the SQL     *)
(* learning platform backend (backend/app).                                *)
(*                                                                         *)
(* The specifications share the variables below.  The two large ones:      *)
(*   SpecSession  the lab / lab-session lifecycle endpoints of             *)
(*                api/v1/endpoints/labs.py with utils/lab_cleanup.py and   *)
(*                utils/lab_db_manager.py, run by concurrent request       *)
(*                threads (FastAPI runs "def" endpoints in a thread pool); *)
(*   SpecExec     the read-only executor core/query_executor.py and the    *)
(*                read-write executor core/lab_query_executor.py with its  *)
(*                worker threads, called by one client.                    *)
(* The others start a part of the program from the states it can be in:    *)
(* SpecTerminate, SpecSweep, SpecSweepAlone, SpecCopy, SpecReset,          *)
(* SpecCreate, SpecRebuild (session files and lab templates), SpecHash     *)
(* (core/answer_validator.py), SpecPractice (the practice execute          *)
(* endpoint, api/v1/endpoints/execute.py) and SpecQuestion (the question   *)
(* endpoints, api/v1/endpoints/questions.py with utils/db_generator.py).   *)
(***************************************************************************)
EXTENDS Integers, Sequences, FiniteSets, TLC

(***************************************************************************)
(* Bounds of the model: rows the lab_sessions table may hold and requests  *)
(* the server receives in one run.  Two request threads serve one lab and  *)
(* two students.                                                           *)
(***************************************************************************)
MaxSessions == 2
MaxRequests == 3

Threads == {1, 2}
Labs == {1}
Users == {1, 2}

VARIABLES
    labs,         \* labs table: lab id -> [is_published, is_running, is_deleted]
    sessions,     \* lab_sessions table: row id -> LabSession row (committed state)
    labAttempts,  \* lab_attempts table: sequence of LabAttempt rows
    files,        \* lab database files: path -> content, or NoFile
    pc,           \* request thread -> position in the handler it runs
    req,          \* request thread -> locals of the handler it runs
    nreq,         \* number of requests received so far
    client,       \* which executor the client of the run calls
    platform,     \* "unix" or "windows": whether the signal module has SIGALRM
                  \* and whether a file that is open can be removed
    qfiles,       \* question database files: path -> content, or NoFile
    roPc,         \* position of the caller inside execute_student_query
    ro,           \* its locals
    roConns,      \* read-only connections that are open
    calls,        \* number of executor calls made so far
    lq,           \* locals of the caller inside execute_lab_query
    workers,      \* worker threads (execute_in_thread): slot -> locals
    attempts,     \* attempts table (practice questions): sequence of Attempt rows
    px,           \* locals of the practice execute endpoint and of generate_hash
    progress,     \* user_progress table: sequence of UserProgress rows
    questions,    \* questions table: question id -> Question row (committed state)
    qdir,         \* question database directory: file name -> content, or NoFile
    qx            \* locals of the question endpoint that is being served

tableVars == <<labs, sessions, labAttempts>>
threadVars == <<pc, req, nreq>>
lifecycleVars == <<labs, sessions, labAttempts, files, pc, req, nreq>>
roVars == <<platform, qfiles, roPc, ro, roConns>>
lxVars == <<lq, workers>>
execVars == <<client, platform, qfiles, roPc, ro, roConns, calls, lq, workers>>
catalogVars == <<questions, qdir, qx>>
practiceVars == <<attempts, px, progress, catalogVars>>
vars == <<lifecycleVars, execVars, practiceVars>>

\* what a lifecycle step, a read-only executor step and a lab executor step
\* leave alone
LifecycleFrame == UNCHANGED <<execVars, practiceVars>>
ROFrame == UNCHANGED <<lifecycleVars, client, lq, workers, practiceVars>>
LXFrame == UNCHANGED <<tableVars, threadVars, client, platform, qfiles, roPc, ro, roConns, practiceVars>>

(***************************************************************************)
(* File system.                                                            *)
(***************************************************************************)
NoFile == [kind |-> "absent", base |-> 0, muts |-> 0]

\* get_lab_template_path: <LAB_DB_PATH>/templates/lab_<lab_id>_template.db
get_lab_template_path(lab_id) == <<"templates", lab_id, 0>>

\* get_student_session_path: <LAB_DB_PATH>/sessions/lab_<lab_id>_student_<user_id>.db
get_student_session_path(lab_id, user_id) == <<"sessions", lab_id, user_id>>

TemplatePaths == {get_lab_template_path(l) : l \in Labs}
SessionPaths == {get_student_session_path(l, u) : l \in Labs, u \in Users}
Paths == TemplatePaths \cup SessionPaths

\* the file sqlite3.connect creates at a path that has none
EmptyFile == [kind |-> "empty", base |-> 0, muts |-> 0]

\* the database a successful create_lab_template leaves at the template path
TemplateContent(lab_id) == [kind |-> "db", base |-> lab_id, muts |-> 0]

\* os.path.exists
Exists(fs, p) == fs[p] # NoFile

\* a change committed to a database file: one more mutation
ApplyWriteTo(content) == [kind |-> "db", base |-> content.base, muts |-> content.muts + 1]

\* os.remove of an existing file that succeeds
Removed(fs, p) == [fs EXCEPT ![p] = NoFile]

(***************************************************************************)
(* copy_template_to_session.  io is what the file system does to the       *)
(* calls: "ok", "remove_fail" (os.remove raises) or "copy_fail"            *)
(* (shutil.copy2 raises).  The result is the file system afterwards and    *)
(* whether the function returned (ok) or raised LabDatabaseError, and       *)
(* whether it removed an old session file.                                 *)
(***************************************************************************)
CopyIO == {"ok", "remove_fail", "copy_fail"}

copy_template_removing_first(fs, lab_id, user_id, io) ==
    LET template_path == get_lab_template_path(lab_id)
        session_path == get_student_session_path(lab_id, user_id)
    IN  IF Exists(fs, session_path) /\ io = "remove_fail"
        THEN [ok |-> FALSE, fs |-> fs, removed |-> FALSE]
        ELSE IF ~Exists(fs, template_path) \/ io = "copy_fail"
        THEN [ok |-> FALSE, fs |-> Removed(fs, session_path),
              removed |-> Exists(fs, session_path)]
        ELSE [ok |-> TRUE, fs |-> [fs EXCEPT ![session_path] = fs[template_path]],
              removed |-> Exists(fs, session_path)]

copy_template_keeping_existing(fs, lab_id, user_id, io) ==
    LET template_path == get_lab_template_path(lab_id)
        session_path == get_student_session_path(lab_id, user_id)
    IN  IF ~Exists(fs, template_path)
        THEN [ok |-> FALSE, fs |-> fs, removed |-> FALSE]
        ELSE IF Exists(fs, session_path)
        THEN [ok |-> TRUE, fs |-> fs, removed |-> FALSE]
        ELSE IF io = "copy_fail"
        THEN [ok |-> FALSE, fs |-> fs, removed |-> FALSE]
        ELSE [ok |-> TRUE, fs |-> [fs EXCEPT ![session_path] = fs[template_path]],
              removed |-> FALSE]

copy_template_to_session(fs, lab_id, user_id, io) ==
    LET template_path == get_lab_template_path(lab_id)
        session_path == get_student_session_path(lab_id, user_id)
    IN  IF ~Exists(fs, template_path)
        THEN [ok |-> FALSE, fs |-> fs, removed |-> FALSE]
        ELSE IF Exists(fs, session_path) /\ io = "remove_fail"
        THEN [ok |-> FALSE, fs |-> fs, removed |-> FALSE]
        ELSE IF io = "copy_fail"
        THEN [ok |-> FALSE, fs |-> Removed(fs, session_path),
              removed |-> Exists(fs, session_path)]
        ELSE [ok |-> TRUE, fs |-> [fs EXCEPT ![session_path] = fs[template_path]],
              removed |-> Exists(fs, session_path)]

\* delete_session_database: best effort, an os.remove error is swallowed
delete_session_database(fs, p, io_ok) ==
    IF Exists(fs, p) /\ io_ok THEN Removed(fs, p) ELSE fs

(***************************************************************************)
(* Tables.                                                                 *)
(***************************************************************************)
SessionIds == 1..Len(sessions)

\* LabSession(lab_id, user_id, db_file_path, is_active=1); ended_at is NULL
NewLabSession(lab_id, user_id, path) ==
    [lab_id |-> lab_id, user_id |-> user_id, db_file_path |-> path,
     is_active |-> 1, ended |-> FALSE]

\* filter(lab_id == l, user_id == u, is_active == 1)
ActiveSessionsOf(l, u) ==
    {s \in SessionIds : /\ sessions[s].lab_id = l
                        /\ sessions[s].user_id = u
                        /\ sessions[s].is_active = 1}

\* filter(lab_id == l, is_active == 1)
ActiveSessionsOfLab(l) ==
    {s \in SessionIds : sessions[s].lab_id = l /\ sessions[s].is_active = 1}

\* Lab.id == l, Lab.is_deleted == 0
LabFound(l) == labs[l].is_deleted = 0

RECURSIVE SetToSeq(_)
SetToSeq(S) ==
    IF S = {} THEN <<>>
    ELSE LET x == CHOOSE y \in S : \A z \in S : y <= z
         IN  <<x>> \o SetToSeq(S \ {x})

(***************************************************************************)
(* Request threads.                                                        *)
(***************************************************************************)
IdleReq == [op |-> "none", lab |-> 0, user |-> 0, sid |-> 0, todo |-> <<>>,
            k |-> 0, ret |-> FALSE, outcome |-> "none", count |-> 0,
            active_paths |-> {}, removed |-> {}, failed |-> FALSE,
            before |-> <<>>, targets |-> {}, attempted |-> {}, listed |-> {},
            was_running |-> FALSE, issued |-> 0,
            script |-> [schema |-> "none", data |-> "none"], conn |-> FALSE,
            detached |-> FALSE, own |-> NoFile, raised |-> "none",
            failure |-> "none"]

Finish(t) == /\ pc' = [pc EXCEPT ![t] = "idle"]
             /\ req' = [req EXCEPT ![t] = IdleReq]

Goto(t, where) == pc' = [pc EXCEPT ![t] = where]

\* an idle thread of the pool takes the next request
Receive(t) == /\ pc[t] = "idle"
              /\ nreq < MaxRequests
              /\ nreq' = nreq + 1

(***************************************************************************)
(* terminate_session (utils/lab_cleanup.py).                               *)
(***************************************************************************)
MaxRetries == 5

RemoveIO == {"ok", "locked", "oserror"}

\* variant: the row change is not committed before the file is handled
TerminateCommitRowsDeferred(ss, sid) == ss

\* session.is_active = 0; session.ended_at = utcnow(); db.commit()
TerminateCommitRows(ss, sid) ==
    [ss EXCEPT ![sid] = [@ EXCEPT !.is_active = 0, !.ended = TRUE]]

\* variant: the failed transaction is not rolled back
TerminateWithoutRollback(ss, as, sid) ==
    [sessions |-> [ss EXCEPT ![sid] = [@ EXCEPT !.is_active = 0, !.ended = TRUE]],
     attempts |-> SelectSeq(as, LAMBDA a : a.session_id # sid)]

\* lines 68-71: db.rollback() undoes the deletion of the attempt rows and the
\* change of the session row
TerminateRollback(ss, as, sid) == [sessions |-> ss, attempts |-> as]

\* LabAttempt rows left by filter(session_id == sid).delete()
DeleteAttemptsOf(as, sid) == SelectSeq(as, LAMBDA a : a.session_id # sid)

\* variant: the exhausted retry budget is reported as a failure
RemoveAttemptResultLockedFails(o, attempt) ==
    IF o = "ok" THEN [next |-> "return", ret |-> TRUE, outcome |-> "deleted"]
    ELSE IF o = "locked"
    THEN IF attempt < MaxRetries - 1
         THEN [next |-> "retry", ret |-> TRUE, outcome |-> "none"]
         ELSE [next |-> "return", ret |-> FALSE, outcome |-> "locked_all"]
    ELSE [next |-> "return", ret |-> TRUE, outcome |-> "other_error"]

\* variant: one more retry than max_retries allows
RemoveAttemptResultExtraRetry(o, attempt) ==
    IF o = "ok" THEN [next |-> "return", ret |-> TRUE, outcome |-> "deleted"]
    ELSE IF o = "locked"
    THEN IF attempt < MaxRetries
         THEN [next |-> "retry", ret |-> TRUE, outcome |-> "none"]
         ELSE [next |-> "return", ret |-> TRUE, outcome |-> "locked_all"]
    ELSE [next |-> "return", ret |-> TRUE, outcome |-> "other_error"]

\* What one os.remove attempt leads to: the loop goes on ("retry") or
\* terminate_session returns ret.  attempt is the loop index, from 0.
RemoveAttemptResult(o, attempt) ==
    IF o = "ok" THEN [next |-> "return", ret |-> TRUE, outcome |-> "deleted"]
    ELSE IF o = "locked"
    THEN IF attempt < MaxRetries - 1
         THEN [next |-> "retry", ret |-> TRUE, outcome |-> "none"]
         ELSE [next |-> "return", ret |-> TRUE, outcome |-> "locked_all"]
    ELSE [next |-> "return", ret |-> TRUE, outcome |-> "other_error"]

\* lines 24-37, one database transaction: it commits, or an exception rolls
\* it back and terminate_session returns False (lines 68-71)
TerminateCommit(t) ==
    /\ pc[t] = "ts_commit"
    /\ LifecycleFrame
    /\ UNCHANGED nreq
    /\ \E ok \in BOOLEAN :
         IF ok
         THEN /\ labAttempts' = DeleteAttemptsOf(labAttempts, req[t].sid)
              /\ sessions' = TerminateCommitRows(sessions, req[t].sid)
              /\ Goto(t, "ts_exists")
              /\ UNCHANGED req
         ELSE /\ req' = [req EXCEPT ![t].ret = FALSE, ![t].outcome = "aborted"]
              /\ Goto(t, "ts_ret")
              /\ LET r == TerminateRollback(sessions, labAttempts, req[t].sid) IN
                 /\ sessions' = r.sessions
                 /\ labAttempts' = r.attempts
    /\ UNCHANGED <<labs, files>>

\* line 43: if os.path.exists(session.db_file_path)
TerminateExists(t) ==
    /\ pc[t] = "ts_exists"
    /\ LifecycleFrame
    /\ UNCHANGED nreq
    /\ IF Exists(files, sessions[req[t].sid].db_file_path)
       THEN /\ req' = [req EXCEPT ![t].k = 0]
            /\ Goto(t, "ts_remove")
       ELSE /\ req' = [req EXCEPT ![t].ret = TRUE, ![t].outcome = "absent"]
            /\ Goto(t, "ts_ret")
    /\ UNCHANGED <<labs, sessions, labAttempts, files>>

\* lines 47-65: one pass of the retry loop.  A file that another request
\* removed meanwhile makes os.remove raise FileNotFoundError ("oserror").
TerminateRemove(t) ==
    /\ pc[t] = "ts_remove"
    /\ LifecycleFrame
    /\ UNCHANGED nreq
    /\ LET path == sessions[req[t].sid].db_file_path IN
       \E o \in RemoveIO :
         /\ (o \in {"ok", "locked"}) => Exists(files, path)
         /\ LET r == RemoveAttemptResult(o, req[t].k) IN
            /\ files' = IF o = "ok" THEN Removed(files, path) ELSE files
            /\ IF r.next = "retry"
               THEN /\ req' = [req EXCEPT ![t].k = @ + 1]
                    /\ UNCHANGED pc
               ELSE /\ req' = [req EXCEPT ![t].ret = r.ret,
                                          ![t].outcome = r.outcome]
                    /\ Goto(t, "ts_ret")
    /\ UNCHANGED <<labs, sessions, labAttempts>>

\* variant: every attempt is counted
CountEveryAttempt(count, ret) == count + 1

\* lines 92-93: if terminate_session(session, db): terminated_count += 1
CountTerminated(count, ret) == IF ret THEN count + 1 ELSE count

\* terminate_session has returned req[t].ret to its caller: exit_session
\* (labs.py 811-817), the lab execute endpoint (labs.py 595-599) or the loop
\* of terminate_all_lab_sessions (92-93)
TerminateReturn(t) ==
    /\ pc[t] = "ts_ret"
    /\ LifecycleFrame
    /\ UNCHANGED nreq
    /\ IF req[t].op \in {"exit_session", "execute_query"}
       THEN Finish(t)
       ELSE /\ req' = [req EXCEPT ![t].count = CountTerminated(@, req[t].ret),
                                  ![t].sid = 0, ![t].k = 0,
                                  ![t].ret = FALSE,
                                  ![t].outcome = "none"]
            /\ Goto(t, "ta_loop")
    /\ UNCHANGED <<labs, sessions, labAttempts, files>>

(***************************************************************************)
(* terminate_all_lab_sessions (utils/lab_cleanup.py 74-95).                *)
(***************************************************************************)
\* where terminate_all_lab_sessions returns to: stop_lab (labs.py 432),
\* unpublish_lab (345) or delete_lab (266)
AfterTerminateAll(op) ==
    CASE op = "unpublish_lab" -> "ul_commit"
      [] op = "delete_lab" -> "dl_commit"
      [] OTHER -> "sl_commit"

TerminateAllQuery(t) ==
    /\ pc[t] = "ta_query"
    /\ LifecycleFrame
    /\ UNCHANGED nreq
    /\ req' = [req EXCEPT ![t].todo = SetToSeq(ActiveSessionsOfLab(req[t].lab)),
                          ![t].targets = ActiveSessionsOfLab(req[t].lab),
                          ![t].count = 0]
    /\ Goto(t, "ta_loop")
    /\ UNCHANGED <<labs, sessions, labAttempts, files>>

TerminateAllLoop(t) ==
    /\ pc[t] = "ta_loop"
    /\ LifecycleFrame
    /\ UNCHANGED nreq
    /\ IF req[t].todo = <<>>
       THEN /\ Goto(t, AfterTerminateAll(req[t].op))
            /\ UNCHANGED req
       ELSE /\ req' = [req EXCEPT ![t].sid = Head(req[t].todo),
                                  ![t].todo = Tail(req[t].todo),
                                  ![t].attempted = @ \cup {Head(req[t].todo)}]
            /\ Goto(t, "ts_commit")
    /\ UNCHANGED <<labs, sessions, labAttempts, files>>

(***************************************************************************)
(* Staff endpoints: publish_lab, start_lab, stop_lab (labs.py).            *)
(***************************************************************************)
\* start_lab, lines 375-391: the lab is read and checked
StartLabCheck(t, l) ==
    /\ Receive(t)
    /\ LifecycleFrame
    /\ IF LabFound(l) /\ labs[l].is_published = 1
       THEN /\ req' = [req EXCEPT ![t] = [IdleReq EXCEPT !.op = "start_lab", !.lab = l,
                                                         !.was_running = (labs[l].is_running # 0)]]
            /\ Goto(t, "stl_commit")
       ELSE UNCHANGED <<pc, req>>
    /\ UNCHANGED <<labs, sessions, labAttempts, files>>

\* start_lab, lines 393-395: lab.is_running = 1; db.commit().  The UPDATE
\* writes the attributes whose value differs from the one that was loaded:
\* for a lab that was read as running it writes updated_at only.
StartLabCommit(t) ==
    /\ pc[t] = "stl_commit"
    /\ LifecycleFrame
    /\ UNCHANGED nreq
    /\ labs' = IF req[t].was_running THEN labs
               ELSE [labs EXCEPT ![req[t].lab].is_running = 1]
    /\ Finish(t)
    /\ UNCHANGED <<sessions, labAttempts, files>>

\* stop_lab, lines 420-432: the lab is read, then terminate_all_lab_sessions
StopLabFind(t, l) ==
    /\ Receive(t)
    /\ LifecycleFrame
    /\ IF LabFound(l)
       THEN /\ req' = [req EXCEPT ![t] = [IdleReq EXCEPT !.op = "stop_lab", !.lab = l,
                                                         !.was_running = (labs[l].is_running # 0)]]
            /\ Goto(t, "ta_query")
       ELSE UNCHANGED <<pc, req>>
    /\ UNCHANGED <<labs, sessions, labAttempts, files>>

\* stop_lab, lines 434-436: lab.is_running = 0; db.commit().  The value is
\* written when it differs from the one that was loaded, or when a commit
\* of terminate_session has expired the loaded lab.
StopLabCommit(t) ==
    /\ pc[t] = "sl_commit"
    /\ LifecycleFrame
    /\ UNCHANGED nreq
    /\ labs' = IF req[t].was_running \/ req[t].targets # {}
               THEN [labs EXCEPT ![req[t].lab].is_running = 0]
               ELSE labs
    /\ Finish(t)
    /\ UNCHANGED <<sessions, labAttempts, files>>

\* unpublish_lab, lines 332-346: the lab is read; a running lab has its
\* sessions terminated first
UnpublishLabFind(t, l) ==
    /\ Receive(t)
    /\ LifecycleFrame
    /\ IF LabFound(l)
       THEN /\ req' = [req EXCEPT ![t] = [IdleReq EXCEPT !.op = "unpublish_lab", !.lab = l,
                                                         !.was_running = (labs[l].is_running # 0)]]
            /\ IF labs[l].is_running # 0
               THEN Goto(t, "ta_query")
               ELSE Goto(t, "ul_commit")
       ELSE UNCHANGED <<pc, req>>
    /\ UNCHANGED <<labs, sessions, labAttempts, files>>

\* unpublish_lab, lines 346-350: lab.is_running = 0 (if it was running);
\* lab.is_published = 0; db.commit().  The UPDATE writes the attributes
\* that were set.
UnpublishLabCommit(t) ==
    /\ pc[t] = "ul_commit"
    /\ LifecycleFrame
    /\ UNCHANGED nreq
    /\ labs' = [labs EXCEPT ![req[t].lab] =
                   [@ EXCEPT !.is_published = 0,
                             !.is_running = IF req[t].was_running THEN 0 ELSE @]]
    /\ Finish(t)
    /\ UNCHANGED <<sessions, labAttempts, files>>

\* delete_lab, lines 253-267
DeleteLabFind(t, l) ==
    /\ Receive(t)
    /\ LifecycleFrame
    /\ IF LabFound(l)
       THEN /\ req' = [req EXCEPT ![t] = [IdleReq EXCEPT !.op = "delete_lab", !.lab = l,
                                                         !.was_running = (labs[l].is_running # 0)]]
            /\ IF labs[l].is_running # 0
               THEN Goto(t, "ta_query")
               ELSE Goto(t, "dl_commit")
       ELSE UNCHANGED <<pc, req>>
    /\ UNCHANGED <<labs, sessions, labAttempts, files>>

\* delete_lab, lines 267-272: lab.is_running = 0 (if it was running);
\* lab.is_deleted = 1; db.commit()
DeleteLabCommit(t) ==
    /\ pc[t] = "dl_commit"
    /\ LifecycleFrame
    /\ UNCHANGED nreq
    /\ labs' = [labs EXCEPT ![req[t].lab] =
                   [@ EXCEPT !.is_deleted = 1,
                             !.is_running = IF req[t].was_running THEN 0 ELSE @]]
    /\ Goto(t, "dl_template")
    /\ UNCHANGED <<req, sessions, labAttempts, files>>

\* delete_lab_template (lab_db_manager.py 176-190): best effort
delete_lab_template(fs, lab_id, io_ok) ==
    LET template_path == get_lab_template_path(lab_id) IN
    IF Exists(fs, template_path) /\ io_ok THEN Removed(fs, template_path) ELSE fs

\* delete_lab, lines 274-277
DeleteLabTemplate(t) ==
    /\ pc[t] = "dl_template"
    /\ LifecycleFrame
    /\ UNCHANGED nreq
    /\ \E io_ok \in BOOLEAN : files' = delete_lab_template(files, req[t].lab, io_ok)
    /\ Finish(t)
    /\ UNCHANGED <<labs, sessions, labAttempts>>

(***************************************************************************)
(* Student endpoints: start_session, reset_session, exit_session.          *)
(***************************************************************************)
\* start_session, lines 460-477: the lab is read and checked
StartSessionLab(t, l, u) ==
    /\ Receive(t)
    /\ LifecycleFrame
    /\ Len(sessions) < MaxSessions
    /\ IF LabFound(l) /\ labs[l].is_published = 1 /\ labs[l].is_running = 1
       THEN /\ req' = [req EXCEPT ![t] = [IdleReq EXCEPT !.op = "start_session",
                                                         !.lab = l, !.user = u]]
            /\ Goto(t, "ss_existing")
       ELSE UNCHANGED <<pc, req>>
    /\ UNCHANGED <<labs, sessions, labAttempts, files>>

StartSessionWithoutExistingCheck(t) ==
    /\ pc[t] = "ss_existing"
    /\ LifecycleFrame
    /\ UNCHANGED nreq
    /\ Goto(t, "ss_copy")
    /\ UNCHANGED <<labs, sessions, labAttempts, files, req>>

\* start_session, lines 479-491: the idempotency check.  .first() yields one
\* of the student's active sessions of the lab, which is what the handler
\* then returns; with none it goes on to the copy.
StartSessionExisting(t) ==
    /\ pc[t] = "ss_existing"
    /\ LifecycleFrame
    /\ UNCHANGED nreq
    /\ IF ActiveSessionsOf(req[t].lab, req[t].user) # {}
       THEN /\ \E existing_session \in ActiveSessionsOf(req[t].lab, req[t].user) :
                 req' = [req EXCEPT ![t].sid = existing_session]
            /\ Goto(t, "ss_ret")
       ELSE /\ Goto(t, "ss_copy")
            /\ UNCHANGED req
    /\ UNCHANGED <<labs, sessions, labAttempts, files>>

\* start_session, lines 486-491: return SessionStart(session_id=existing_session.id, ...)
StartSessionReturn(t) ==
    /\ pc[t] = "ss_ret"
    /\ LifecycleFrame
    /\ UNCHANGED nreq
    /\ Finish(t)
    /\ UNCHANGED <<labs, sessions, labAttempts, files>>

\* start_session, lines 493-500: copy_template_to_session, or HTTP 500
StartSessionCopy(t) ==
    /\ pc[t] = "ss_copy"
    /\ LifecycleFrame
    /\ UNCHANGED nreq
    /\ \E io \in CopyIO :
         LET r == copy_template_to_session(files, req[t].lab, req[t].user, io) IN
         /\ files' = r.fs
         /\ IF r.ok
            THEN /\ Goto(t, "ss_insert")
                 /\ UNCHANGED req
            ELSE Finish(t)
    /\ UNCHANGED <<labs, sessions, labAttempts>>

\* start_session, lines 502-511: db.add(LabSession(..., is_active=1)); db.commit()
StartSessionInsert(t) ==
    /\ pc[t] = "ss_insert"
    /\ LifecycleFrame
    /\ UNCHANGED nreq
    /\ sessions' = Append(sessions,
                          NewLabSession(req[t].lab, req[t].user,
                                        get_student_session_path(req[t].lab, req[t].user)))
    /\ Finish(t)
    /\ UNCHANGED <<labs, labAttempts, files>>

\* exit_session, lines 796-811: the active session is looked up (.first()
\* returns one of the matching rows) and handed to terminate_session
ExitSessionFind(t, l, u) ==
    /\ Receive(t)
    /\ LifecycleFrame
    /\ \E s \in ActiveSessionsOf(l, u) :
         /\ req' = [req EXCEPT ![t] = [IdleReq EXCEPT !.op = "exit_session",
                                                      !.lab = l, !.user = u, !.sid = s]]
         /\ Goto(t, "ts_commit")
    /\ UNCHANGED <<labs, sessions, labAttempts, files>>

\* reset_session, lines 756-767
ResetSessionFind(t, l, u) ==
    /\ Receive(t)
    /\ LifecycleFrame
    /\ \E s \in ActiveSessionsOf(l, u) :
         /\ req' = [req EXCEPT ![t] = [IdleReq EXCEPT !.op = "reset_session",
                                                      !.lab = l, !.user = u, !.sid = s,
                                                      !.issued = calls]]
         /\ Goto(t, "rs_delete")
    /\ UNCHANGED <<labs, sessions, labAttempts, files>>

\* The worker threads of execute_lab_query whose connection has the file at
\* path p open.  os.remove of such a file is refused on windows; on unix the
\* name goes and the connections keep the removed file, which they alone
\* still see (own).
HoldOpen(p) ==
    {w \in DOMAIN workers :
        workers[w].conn /\ ~workers[w].detached /\ workers[w].path = p}

CanRemove(p) == platform = "unix" \/ HoldOpen(p) = {}

Unlinked(p) ==
    [w \in DOMAIN workers |->
        IF w \in HoldOpen(p)
        THEN [workers[w] EXCEPT !.detached = TRUE, !.own = files[p]]
        ELSE workers[w]]

ResetFrame == UNCHANGED <<client, platform, qfiles, roPc, ro, roConns, calls, lq, practiceVars>>

\* reset_session, line 770: delete_session_database(session.db_file_path)
ResetSessionDelete(t) ==
    /\ pc[t] = "rs_delete"
    /\ ResetFrame
    /\ UNCHANGED nreq
    /\ LET session_path == sessions[req[t].sid].db_file_path IN
       \E io_ok \in BOOLEAN :
         /\ io_ok => CanRemove(session_path)
         /\ files' = delete_session_database(files, session_path, io_ok)
         /\ workers' = IF Exists(files, session_path) /\ io_ok
                       THEN Unlinked(session_path) ELSE workers
    /\ Goto(t, "rs_copy")
    /\ UNCHANGED <<labs, sessions, labAttempts, req>>

\* reset_session, lines 773-781: copy_template_to_session, then
\* session.db_file_path = session_db_path; db.commit(); or HTTP 500
ResetSessionCopy(t) ==
    /\ pc[t] = "rs_copy"
    /\ ResetFrame
    /\ UNCHANGED nreq
    /\ LET session_path == get_student_session_path(req[t].lab, req[t].user) IN
       \E io \in CopyIO :
         LET r == copy_template_to_session(files, req[t].lab, req[t].user, io) IN
         /\ r.removed => CanRemove(session_path)
         /\ files' = r.fs
         /\ workers' = IF r.removed THEN Unlinked(session_path) ELSE workers
         /\ sessions' = IF r.ok
                        THEN [sessions EXCEPT ![req[t].sid].db_file_path = session_path]
                        ELSE sessions
         /\ IF r.ok
            THEN /\ Goto(t, "rs_ret")
                 /\ UNCHANGED req
            ELSE Finish(t)
    /\ UNCHANGED <<labs, labAttempts>>

\* reset_session, line 783: return {"message": "Session database reset successfully"}
ResetSessionReturn(t) ==
    /\ pc[t] = "rs_ret"
    /\ LifecycleFrame
    /\ UNCHANGED nreq
    /\ Finish(t)
    /\ UNCHANGED <<labs, sessions, labAttempts, files>>

(***************************************************************************)
(* update_lab (labs.py 164-238) and create_lab_template                    *)
(* (utils/lab_db_manager.py 45-117).  A request thread's connection to the *)
(* template file is req[t].conn; a connection whose file was removed under *)
(* it (unix) is detached and goes on with the removed file, req[t].own.    *)
(***************************************************************************)
\* What cursor.executescript does with the schema script: it creates tables,
\* creates none, raises sqlite3.Error, or raises another exception (a text
\* with a NUL character or a lone surrogate raises ValueError).  Likewise
\* for the data script.
SchemaOutcomes == {"tables", "no_tables", "sql_error", "value_error"}
DataOutcomes == {"ok", "sql_error", "value_error"}
Scripts == [schema : SchemaOutcomes, data : DataOutcomes]

\* the template after the schema script has been committed
SchemaOnly(lab_id) == [kind |-> "schema", base |-> lab_id, muts |-> 0]

\* the request threads whose connection has the template file at p open
TemplateHolders(p) ==
    {t \in Threads : /\ req[t].conn
                     /\ ~req[t].detached
                     /\ get_lab_template_path(req[t].lab) = p}

\* os.remove(template_path) can succeed: always on unix, on windows only
\* when no connection has the file open
CanRemoveTemplate(p) == platform = "unix" \/ TemplateHolders(p) = {}

\* the request locals after the file at p has been removed
Detach(rq, p) ==
    [t \in Threads |->
        IF t \in TemplateHolders(p)
        THEN [rq[t] EXCEPT !.detached = TRUE, !.own = files[p]]
        ELSE rq[t]]

\* the database file as the connection of thread t sees it
ConnFile(t) ==
    IF req[t].detached THEN req[t].own
    ELSE files[get_lab_template_path(req[t].lab)]

\* the connection of thread t commits content to its database file
ConnWrite(t, content, rq) ==
    /\ files' = IF req[t].detached THEN files
                ELSE [files EXCEPT ![get_lab_template_path(req[t].lab)] = content]
    /\ req' = IF req[t].detached THEN [rq EXCEPT ![t].own = content] ELSE rq

\* update_lab, lines 176-213: the lab is looked up, a running lab is
\* refused, and the template is rebuilt when the SQL has changed
UpdateLabFind(t, l) ==
    /\ Receive(t)
    /\ LifecycleFrame
    /\ IF LabFound(l) /\ labs[l].is_running = 0
       THEN \E sql_changed \in BOOLEAN, script \in Scripts :
              /\ req' = [req EXCEPT ![t] = [IdleReq EXCEPT !.op = "update_lab",
                                                           !.lab = l, !.script = script]]
              /\ Goto(t, IF sql_changed THEN "ct_remove" ELSE "upd_commit")
       ELSE UNCHANGED <<pc, req>>
    /\ UNCHANGED <<labs, sessions, labAttempts, files>>

\* create_lab_template, lines 63-67: the existing template is removed, or
\* LabDatabaseError is raised
CreateTemplateRemove(t) ==
    /\ pc[t] = "ct_remove"
    /\ LifecycleFrame
    /\ UNCHANGED nreq
    /\ LET template_path == get_lab_template_path(req[t].lab) IN
       IF ~Exists(files, template_path)
       THEN /\ Goto(t, "ct_connect")
            /\ UNCHANGED <<files, req>>
       ELSE \E io_ok \in BOOLEAN :
              /\ io_ok => CanRemoveTemplate(template_path)
              /\ IF io_ok
                 THEN /\ files' = Removed(files, template_path)
                      /\ req' = Detach(req, template_path)
                      /\ Goto(t, "ct_connect")
                 ELSE /\ UNCHANGED files
                      /\ req' = [req EXCEPT ![t].raised = "LabDatabaseError",
                                            ![t].failure = "remove_old"]
                      /\ Goto(t, "ct_ret")
    /\ UNCHANGED <<labs, sessions, labAttempts>>

\* lines 71-72: sqlite3.connect(template_path) creates the file when it is
\* missing
CreateTemplateConnect(t) ==
    /\ pc[t] = "ct_connect"
    /\ LifecycleFrame
    /\ UNCHANGED nreq
    /\ LET template_path == get_lab_template_path(req[t].lab) IN
       files' = IF Exists(files, template_path) THEN files
                ELSE [files EXCEPT ![template_path] = EmptyFile]
    /\ req' = [req EXCEPT ![t].conn = TRUE]
    /\ Goto(t, "ct_schema")
    /\ UNCHANGED <<labs, sessions, labAttempts>>

\* lines 75-82: the schema script is run and committed; sqlite3.Error closes
\* the connection and goes to the clean-up of the handler, any other
\* exception goes to the handler of line 108 with the connection open
CreateTemplateSchema(t) ==
    /\ pc[t] = "ct_schema"
    /\ LifecycleFrame
    /\ UNCHANGED nreq
    /\ CASE req[t].script.schema = "tables" ->
              /\ ConnWrite(t, SchemaOnly(req[t].lab), req)
              /\ Goto(t, "ct_data")
         [] req[t].script.schema = "no_tables" ->
              /\ UNCHANGED <<files, req>>
              /\ Goto(t, "ct_data")
         [] req[t].script.schema = "sql_error" ->
              /\ UNCHANGED files
              /\ req' = [req EXCEPT ![t].conn = FALSE, ![t].failure = "schema"]
              /\ Goto(t, "ct_cleanup")
         [] OTHER ->
              /\ UNCHANGED files
              /\ req' = [req EXCEPT ![t].failure = "unexpected"]
              /\ Goto(t, "ct_except")
    /\ UNCHANGED <<labs, sessions, labAttempts>>

\* lines 85-92: the data script is run and committed
CreateTemplateData(t) ==
    /\ pc[t] = "ct_data"
    /\ LifecycleFrame
    /\ UNCHANGED nreq
    /\ CASE req[t].script.data = "ok" ->
              /\ IF ConnFile(t).kind = "schema"
                 THEN ConnWrite(t, TemplateContent(req[t].lab), req)
                 ELSE UNCHANGED <<files, req>>
              /\ Goto(t, "ct_verify")
         [] req[t].script.data = "sql_error" ->
              /\ UNCHANGED files
              /\ req' = [req EXCEPT ![t].conn = FALSE, ![t].failure = "data"]
              /\ Goto(t, "ct_cleanup")
         [] OTHER ->
              /\ UNCHANGED files
              /\ req' = [req EXCEPT ![t].failure = "unexpected"]
              /\ Goto(t, "ct_except")
    /\ UNCHANGED <<labs, sessions, labAttempts>>

\* lines 95-106: the tables are listed; with none the connection is closed
\* and the clean-up follows, otherwise the connection is closed and the
\* path returned
CreateTemplateVerify(t) ==
    /\ pc[t] = "ct_verify"
    /\ LifecycleFrame
    /\ UNCHANGED nreq
    /\ IF ConnFile(t).kind \in {"schema", "db"}
       THEN /\ req' = [req EXCEPT ![t].conn = FALSE]
            /\ Goto(t, "ct_ret")
       ELSE /\ req' = [req EXCEPT ![t].conn = FALSE, ![t].failure = "no_tables"]
            /\ Goto(t, "ct_cleanup")
    /\ UNCHANGED <<labs, sessions, labAttempts, files>>

\* lines 80-82, 90-92, 100-102: after conn.close() the file is removed and
\* LabDatabaseError raised, which the handler of line 108 passes on; an
\* os.remove that raises goes to that handler as well
CreateTemplateCleanup(t) ==
    /\ pc[t] = "ct_cleanup"
    /\ LifecycleFrame
    /\ UNCHANGED nreq
    /\ LET template_path == get_lab_template_path(req[t].lab) IN
       IF ~Exists(files, template_path)
       THEN /\ UNCHANGED files
            /\ req' = [req EXCEPT ![t].raised = "LabDatabaseError"]
            /\ Goto(t, "ct_ret")
       ELSE \E io_ok \in BOOLEAN :
              /\ io_ok => CanRemoveTemplate(template_path)
              /\ IF io_ok
                 THEN /\ files' = Removed(files, template_path)
                      /\ req' = [Detach(req, template_path) EXCEPT
                                    ![t].raised = "LabDatabaseError"]
                      /\ Goto(t, "ct_ret")
                 ELSE /\ UNCHANGED <<files, req>>
                      /\ Goto(t, "ct_except")
    /\ UNCHANGED <<labs, sessions, labAttempts>>

\* lines 108-117: except Exception: the file is removed if that works, and
\* LabDatabaseError is raised
CreateTemplateExcept(t) ==
    /\ pc[t] = "ct_except"
    /\ LifecycleFrame
    /\ UNCHANGED nreq
    /\ LET template_path == get_lab_template_path(req[t].lab) IN
       \E io_ok \in BOOLEAN :
         /\ io_ok => CanRemoveTemplate(template_path)
         /\ IF io_ok /\ Exists(files, template_path)
            THEN /\ files' = Removed(files, template_path)
                 /\ req' = [Detach(req, template_path) EXCEPT
                               ![t].raised = "LabDatabaseError"]
            ELSE /\ UNCHANGED files
                 /\ req' = [req EXCEPT ![t].raised = "LabDatabaseError"]
    /\ Goto(t, "ct_ret")
    /\ UNCHANGED <<labs, sessions, labAttempts>>

\* update_lab, lines 214-223: create_lab_template has returned or raised;
\* LabDatabaseError becomes db.rollback() and HTTP 400
CreateTemplateReturn(t) ==
    /\ pc[t] = "ct_ret"
    /\ LifecycleFrame
    /\ UNCHANGED nreq
    /\ IF req[t].raised = "none"
       THEN /\ Goto(t, "upd_commit")
            /\ UNCHANGED req
       ELSE Finish(t)
    /\ UNCHANGED <<labs, sessions, labAttempts, files>>

\* update_lab, lines 225-227: lab.updated_at = ...; db.commit()
UpdateLabCommit(t) ==
    /\ pc[t] = "upd_commit"
    /\ LifecycleFrame
    /\ UNCHANGED nreq
    /\ Finish(t)
    /\ UNCHANGED <<labs, sessions, labAttempts, files>>

\* the steps of create_lab_template
InCreateTemplate(t) ==
    pc[t] \in {"ct_remove", "ct_connect", "ct_schema", "ct_data", "ct_verify",
               "ct_cleanup", "ct_except"}

(***************************************************************************)
(* Direct calls of the file functions of utils/lab_db_manager.py.           *)
(***************************************************************************)
\* one call of copy_template_to_session(lab_id, user_id); req[t].ret tells
\* whether it returned the path or raised LabDatabaseError
CopyCall(t, l, u) ==
    /\ Receive(t)
    /\ LifecycleFrame
    /\ \E io \in CopyIO :
         LET r == copy_template_to_session(files, l, u, io) IN
         /\ files' = r.fs
         /\ req' = [req EXCEPT ![t] = [IdleReq EXCEPT !.op = "copy_template_to_session",
                                                      !.lab = l, !.user = u,
                                                      !.ret = r.ok, !.before = files]]
    /\ Goto(t, "cp_ret")
    /\ UNCHANGED <<labs, sessions, labAttempts>>

CopyReturn(t) ==
    /\ pc[t] = "cp_ret"
    /\ LifecycleFrame
    /\ UNCHANGED nreq
    /\ Finish(t)
    /\ UNCHANGED <<labs, sessions, labAttempts, files>>

\* one call of delete_lab_template(lab_id)
DeleteTemplateCall(t, l) ==
    /\ Receive(t)
    /\ LifecycleFrame
    /\ \E io_ok \in BOOLEAN : files' = delete_lab_template(files, l, io_ok)
    /\ UNCHANGED <<pc, req, labs, sessions, labAttempts>>

\* What the database does to get_schema_info: it answers, sqlite3.connect
\* raises, or a statement raises sqlite3.Error (a file that is no database,
\* or PRAGMA table_info(name) with a table name that needs quoting).
SchemaInfoIO == {"ok", "connect_error", "query_error"}

\* one call of get_schema_info(db_path), lines 206-244: conn.close() is
\* reached only when every statement has run; the except clause raises
\* LabDatabaseError and does not close
SchemaInfoCall(t, db_path) ==
    /\ Receive(t)
    /\ LifecycleFrame
    /\ \E io \in SchemaInfoIO :
         req' = [req EXCEPT ![t] =
                   [IdleReq EXCEPT
                      !.op = "get_schema_info",
                      !.raised = IF Exists(files, db_path) /\ io = "ok"
                                 THEN "none" ELSE "LabDatabaseError",
                      !.conn = Exists(files, db_path) /\ io = "query_error"]]
    /\ Goto(t, "si_ret")
    /\ UNCHANGED <<labs, sessions, labAttempts, files>>

SchemaInfoReturn(t) ==
    /\ pc[t] = "si_ret"
    /\ LifecycleFrame
    /\ UNCHANGED nreq
    /\ Finish(t)
    /\ UNCHANGED <<labs, sessions, labAttempts, files>>

(***************************************************************************)
(* cleanup_orphan_session_files (utils/lab_cleanup.py 98-137), the periodic *)
(* sweep.  It is given the base path the sessions are stored under, so the  *)
(* paths it lists are spelled as the db_file_path column spells them.  The  *)
(* sessions directory exists (get_student_session_path creates it); were it *)
(* missing, the sweep would return 0 as it does for an empty directory.     *)
(***************************************************************************)
\* filter(is_active == 1) on db_file_path, lines 119-122
ActivePaths ==
    {sessions[s].db_file_path : s \in {x \in SessionIds : sessions[x].is_active = 1}}

IsOrphanWhenNoSessionActive(full_path, active_paths) == active_paths = {}

\* line 129: full_path not in active_paths
IsOrphan(full_path, active_paths) == full_path \notin active_paths

\* lines 116-122: cleaned_count = 0 and the query for the active paths
SweepQuery(t) ==
    /\ Receive(t)
    /\ LifecycleFrame
    /\ req' = [req EXCEPT ![t] = [IdleReq EXCEPT !.op = "cleanup_orphans",
                                                 !.active_paths = ActivePaths,
                                                 !.before = files]]
    /\ Goto(t, "sw_glob")
    /\ UNCHANGED <<labs, sessions, labAttempts, files>>

\* line 125: session_dir.glob("lab_*_student_*.db") lists the directory
SweepGlob(t) ==
    /\ pc[t] = "sw_glob"
    /\ LifecycleFrame
    /\ UNCHANGED nreq
    /\ req' = [req EXCEPT ![t].listed = {p \in SessionPaths : Exists(files, p)}]
    /\ Goto(t, "sw_file")
    /\ UNCHANGED <<labs, sessions, labAttempts, files>>

\* lines 125-135: one turn of the loop, in the order the directory yields
\* the files.  os.remove raises when the file is gone or cannot be removed;
\* the exception is logged and the file is not counted.
SweepFile(t) ==
    /\ pc[t] = "sw_file"
    /\ LifecycleFrame
    /\ UNCHANGED nreq
    /\ IF req[t].listed = {}
       THEN /\ Goto(t, "sw_ret")
            /\ UNCHANGED <<req, files>>
       ELSE /\ UNCHANGED pc
            /\ \E full_path \in req[t].listed :
                 IF ~IsOrphan(full_path, req[t].active_paths)
                 THEN /\ req' = [req EXCEPT ![t].listed = @ \ {full_path}]
                      /\ UNCHANGED files
                 ELSE \E io_ok \in BOOLEAN :
                        IF io_ok /\ Exists(files, full_path)
                        THEN /\ files' = Removed(files, full_path)
                             /\ req' = [req EXCEPT ![t].listed = @ \ {full_path},
                                                   ![t].removed = @ \cup {full_path},
                                                   ![t].count = @ + 1]
                        ELSE /\ UNCHANGED files
                             /\ req' = [req EXCEPT ![t].listed = @ \ {full_path},
                                                   ![t].failed = TRUE]
    /\ UNCHANGED <<labs, sessions, labAttempts>>

\* line 137: return cleaned_count
SweepReturn(t) ==
    /\ pc[t] = "sw_ret"
    /\ LifecycleFrame
    /\ UNCHANGED nreq
    /\ Finish(t)
    /\ UNCHANGED <<labs, sessions, labAttempts, files>>

(***************************************************************************)
(* The lab execute endpoint (labs.py 552-625).  Here execute_lab_query is  *)
(* one step that reads or changes the session database; its worker thread  *)
(* is modelled further below.                                              *)
(***************************************************************************)
\* LabAttempt(session_id, lab_id, user_id, ..., success)
NewLabAttempt(session_id, lab_id, user_id, success) ==
    [session_id |-> session_id, lab_id |-> lab_id, user_id |-> user_id,
     success |-> success]

StatementKinds == {"read", "write"}

\* The database file after execute_lab_query ran a statement of the given
\* kind on it: sqlite3.connect creates a missing file, a committed change
\* is one more mutation.
FileAfterStatement(content, kind) ==
    IF kind = "write" /\ content.kind = "db" THEN ApplyWriteTo(content)
    ELSE IF content.kind = "absent" THEN [kind |-> "empty", base |-> 0, muts |-> 0]
    ELSE content

\* lines 565-599: the session and the lab are read and checked.  A session
\* whose lab is not running is terminated (the return value is not used).
ExecuteCheck(t, u, s) ==
    /\ Receive(t)
    /\ LifecycleFrame
    /\ s \in SessionIds
    /\ IF sessions[s].user_id # u \/ sessions[s].is_active = 0
       THEN UNCHANGED <<pc, req>>
       ELSE /\ req' = [req EXCEPT ![t] = [IdleReq EXCEPT !.op = "execute_query",
                                                         !.lab = sessions[s].lab_id,
                                                         !.user = u, !.sid = s]]
            /\ IF labs[sessions[s].lab_id].is_running = 0
               THEN Goto(t, "ts_commit")
               ELSE Goto(t, "ex_query")
    /\ UNCHANGED <<labs, sessions, labAttempts, files>>

\* line 602: execute_lab_query(session.db_file_path, query, timeout=15)
ExecuteQuery(t) ==
    /\ pc[t] = "ex_query"
    /\ LifecycleFrame
    /\ UNCHANGED nreq
    /\ LET path == sessions[req[t].sid].db_file_path IN
       \E kind \in StatementKinds :
         /\ files' = [files EXCEPT ![path] = FileAfterStatement(files[path], kind)]
         /\ req' = [req EXCEPT ![t].ret = (files[path].kind = "db")]
    /\ Goto(t, "ex_save")
    /\ UNCHANGED <<labs, sessions, labAttempts>>

\* lines 604-616: db.add(LabAttempt(...)); db.commit()
ExecuteSave(t) ==
    /\ pc[t] = "ex_save"
    /\ LifecycleFrame
    /\ UNCHANGED nreq
    /\ labAttempts' = Append(labAttempts,
                             NewLabAttempt(req[t].sid, req[t].lab, req[t].user,
                                           req[t].ret))
    /\ Finish(t)
    /\ UNCHANGED <<labs, sessions, files>>

(***************************************************************************)
(* SpecSession: the lifecycle endpoints run by concurrent request threads. *)
(* Initially every lab has been created, published and started            *)
(* (create_lab, publish_lab, start_lab): its template database is built    *)
(* and no student has a session yet.                                       *)
(***************************************************************************)
LifecycleInit ==
    /\ labs = [l \in Labs |-> [is_published |-> 1, is_running |-> 1, is_deleted |-> 0]]
    /\ sessions = <<>>
    /\ labAttempts = <<>>
    /\ files = [p \in Paths |-> IF p \in TemplatePaths
                                THEN TemplateContent(p[2]) ELSE NoFile]
    /\ pc = [t \in Threads |-> "idle"]
    /\ req = [t \in Threads |-> IdleReq]
    /\ nreq = 0

LifecycleNext ==
    \E t \in Threads :
        \/ \E l \in Labs : StartLabCheck(t, l)
        \/ StartLabCommit(t)
        \/ \E l \in Labs : StopLabFind(t, l)
        \/ StopLabCommit(t)
        \/ \E l \in Labs : UnpublishLabFind(t, l)
        \/ UnpublishLabCommit(t)
        \/ \E l \in Labs : DeleteLabFind(t, l)
        \/ DeleteLabCommit(t)
        \/ DeleteLabTemplate(t)
        \/ TerminateAllQuery(t)
        \/ TerminateAllLoop(t)
        \/ TerminateCommit(t)
        \/ TerminateExists(t)
        \/ TerminateRemove(t)
        \/ TerminateReturn(t)
        \/ \E l \in Labs, u \in Users : StartSessionLab(t, l, u)
        \/ StartSessionExisting(t)
        \/ StartSessionReturn(t)
        \/ StartSessionCopy(t)
        \/ StartSessionInsert(t)
        \/ \E l \in Labs, u \in Users : ExitSessionFind(t, l, u)
        \/ \E l \in Labs, u \in Users : ResetSessionFind(t, l, u)
        \/ ResetSessionDelete(t)
        \/ ResetSessionCopy(t)
        \/ ResetSessionReturn(t)
        \/ \E u \in Users, s \in 1..MaxSessions : ExecuteCheck(t, u, s)
        \/ ExecuteQuery(t)
        \/ ExecuteSave(t)

(***************************************************************************)
(* Query text.  A text is a sequence of characters; str.strip, str.upper,  *)
(* str.startswith and the "in" substring test are computed on it.          *)
(***************************************************************************)
LowerLetters == <<"a", "b", "c", "d", "e", "f", "g", "h", "i", "j", "k", "l", "m", "n", "o", "p", "q", "r", "s", "t", "u", "v", "w", "x", "y", "z">>
UpperLetters == <<"A", "B", "C", "D", "E", "F", "G", "H", "I", "J", "K", "L", "M", "N", "O", "P", "Q", "R", "S", "T", "U", "V", "W", "X", "Y", "Z">>
Whitespace == {" "}

UpperChar(c) ==
    IF \E i \in 1..Len(LowerLetters) : LowerLetters[i] = c
    THEN UpperLetters[CHOOSE i \in 1..Len(LowerLetters) : LowerLetters[i] = c]
    ELSE c

\* str.upper
Upper(s) == [i \in 1..Len(s) |-> UpperChar(s[i])]

RECURSIVE LStrip(_)
LStrip(s) == IF s # <<>> /\ Head(s) \in Whitespace THEN LStrip(Tail(s)) ELSE s

RECURSIVE RStrip(_)
RStrip(s) ==
    IF s # <<>> /\ s[Len(s)] \in Whitespace THEN RStrip(SubSeq(s, 1, Len(s) - 1)) ELSE s

\* str.strip
Strip(s) == RStrip(LStrip(s))

\* str.startswith
StartsWith(s, prefix) ==
    Len(s) >= Len(prefix) /\ SubSeq(s, 1, Len(prefix)) = prefix

\* needle in s
In(needle, s) ==
    \E i \in 1..(Len(s) - Len(needle) + 1) : SubSeq(s, i, i + Len(needle) - 1) = needle

SELECT == <<"S", "E", "L", "E", "C", "T">>

(***************************************************************************)
(* QueryExecutor._is_safe_query (core/query_executor.py 62-94).            *)
(***************************************************************************)
\* variant: the blocklist without its last keyword
dangerous_keywords_without_detach == <<
    <<"D", "R", "O", "P">>,
    <<"D", "E", "L", "E", "T", "E">>,
    <<"I", "N", "S", "E", "R", "T">>,
    <<"U", "P", "D", "A", "T", "E">>,
    <<"A", "L", "T", "E", "R">>,
    <<"C", "R", "E", "A", "T", "E">>,
    <<"T", "R", "U", "N", "C", "A", "T", "E">>,
    <<"R", "E", "P", "L", "A", "C", "E">>,
    <<"P", "R", "A", "G", "M", "A">>,
    <<"A", "T", "T", "A", "C", "H">> >>

dangerous_keywords == <<
    <<"D", "R", "O", "P">>,
    <<"D", "E", "L", "E", "T", "E">>,
    <<"I", "N", "S", "E", "R", "T">>,
    <<"U", "P", "D", "A", "T", "E">>,
    <<"A", "L", "T", "E", "R">>,
    <<"C", "R", "E", "A", "T", "E">>,
    <<"T", "R", "U", "N", "C", "A", "T", "E">>,
    <<"R", "E", "P", "L", "A", "C", "E">>,
    <<"P", "R", "A", "G", "M", "A">>,
    <<"A", "T", "T", "A", "C", "H">>,
    <<"D", "E", "T", "A", "C", "H">> >>

\* for keyword in dangerous_keywords: if keyword in query_upper: return False
RECURSIVE NoDangerousFrom(_, _)
NoDangerousFrom(query_upper, i) ==
    IF i > Len(dangerous_keywords) THEN TRUE
    ELSE IF In(dangerous_keywords[i], query_upper) THEN FALSE
    ELSE NoDangerousFrom(query_upper, i + 1)

is_safe_query(query) ==
    IF query = <<>> \/ Strip(query) = <<>> THEN FALSE
    ELSE LET query_upper == Upper(Strip(query)) IN
         IF ~StartsWith(query_upper, SELECT) THEN FALSE
         ELSE NoDangerousFrom(query_upper, 1)

(***************************************************************************)
(* The query texts of the model: every concatenation of at most            *)
(* MaxFragments of the fragments below (keywords in either case, split     *)
(* keywords, blanks, an identifier).                                       *)
(***************************************************************************)
MaxFragments == 2

QueryFragments == {
    <<"S", "E", "L", "E", "C", "T">>,
    <<"S", "e", "l", "e", "c", "t">>,
    <<" ">>,
    <<"x">>,
    <<"d", "r">>,
    <<"O", "P">>,
    <<"d", "r", "o", "p">>,
    <<"d", "e", "l", "e", "t", "e">>,
    <<"i", "n", "s", "e", "r", "t">>,
    <<"u", "p", "d", "a", "t", "e">>,
    <<"a", "l", "t", "e", "r">>,
    <<"c", "r", "e", "a", "t", "e">>,
    <<"t", "r", "u", "n", "c", "a", "t", "e">>,
    <<"r", "e", "p", "l", "a", "c", "e">>,
    <<"p", "r", "a", "g", "m", "a">>,
    <<"a", "t", "t", "a", "c", "h">>,
    <<"d", "e", "t", "a", "c", "h">> }

RECURSIVE Concats(_)
Concats(n) ==
    IF n = 0 THEN {<<>>}
    ELSE LET shorter == Concats(n - 1)
         IN  shorter \cup {q \o f : q \in shorter, f \in QueryFragments}

Queries == Concats(MaxFragments)

(***************************************************************************)
(* Read-only executor (core/query_executor.py).                            *)
(***************************************************************************)
MaxROCalls == 1

ROTimeout == 5

QuestionPaths == {"question.db", "missing.db"}

QuestionContent == [kind |-> "db", base |-> 7, muts |-> 0]

\* the rows a retrieval reads from a database file
TableRows(content) == << <<content.base, content.muts>> >>
TableColumns == <<"id", "name">>

\* a data change committed to a database file
ApplyWrite(content) == [kind |-> "db", base |-> content.base, muts |-> content.muts + 1]

\* what the backend does with a statement it is given: return rows, return
\* no row, report an error, try to change the database, or run past the
\* timeout before returning rows
Effects == {"rows", "empty", "error", "write", "slow"}

\* None
None == <<>>

NoExc == [type |-> "none", msg |-> <<>>]
Exc(type, msg) == [type |-> type, msg |-> msg]

\* lines 113-116
UnsafeMessage ==
    <<"Only SELECT queries are allowed. ",
      "Queries must not contain DROP, DELETE, INSERT, UPDATE, ALTER, CREATE, etc.">>

\* line 46
TimeoutMessage(timeout_seconds) ==
    <<"Query execution exceeded ", ToString(timeout_seconds), " seconds">>

\* lines 142-145: except sqlite3.Error / except Exception
WrapSqlite(m) == Exc("QueryExecutionError", <<"SQL execution error: ", m>>)
WrapUnexpected(m) ==
    Exc("QueryExecutionError", <<"Unexpected error during query execution: ", m>>)

\* variant: the connection is opened read-write
ConnectReadWrite == "rw"

\* line 120: sqlite3.connect(f"file:{self.db_path}?mode=ro", uri=True)
ConnectMode == "ro"

\* _timeout_handler, lines 48-60, on entry: SIGALRM is armed; or the platform
\* has no SIGALRM (AttributeError: the body runs without a timeout); or
\* signal.signal refuses to run outside the main thread (ValueError)
TimeoutEnter(plat, thread) ==
    IF plat = "windows" THEN "unarmed"
    ELSE IF thread = "main" THEN "armed"
    ELSE "ValueError"

\* lines 127-133: cursor.execute(query); cursor.fetchall() inside the timeout
\* handler, on a connection opened in the given mode
ExecuteOutcome(mode, alarm, eff, content, timeout_seconds) ==
    LET ok(cols, rows, ms, c) ==
            [exc |-> NoExc, columns |-> cols, results |-> rows, time |-> ms,
             content |-> c]
        fail(e) ==
            [exc |-> e, columns |-> <<>>, results |-> <<>>, time |-> 0,
             content |-> content]
    IN  CASE eff = "rows"  -> ok(TableColumns, TableRows(content), 1, content)
          [] eff = "empty" -> ok(TableColumns, <<>>, 1, content)
          [] eff = "error" -> fail(WrapSqlite("no such table"))
          [] eff = "write" ->
                IF mode = "ro"
                THEN fail(WrapSqlite("attempt to write a readonly database"))
                ELSE ok(<<>>, <<>>, 1, ApplyWrite(content))
          [] eff = "slow"  ->
                IF alarm
                THEN fail(Exc("QueryTimeoutError", TimeoutMessage(timeout_seconds)))
                ELSE ok(TableColumns, TableRows(content),
                        (timeout_seconds + 1) * 1000, content)

\* row_dict = {columns[i]: row[i] for i in range(len(columns))}
RowDicts(columns, results) ==
    [r \in 1..Len(results) |->
        [i \in 1..Len(columns) |-> <<columns[i], results[r][i]>>]]

FailureResult(ms, message) ==
    [raised |-> "none", success |-> FALSE, columns |-> <<>>, results |-> <<>>,
     raw_results |-> <<>>, execution_time_ms |-> ms, row_count |-> 0,
     error_message |-> message]

SuccessResult(columns, results, ms) ==
    [raised |-> "none", success |-> TRUE, columns |-> columns,
     results |-> RowDicts(columns, results), raw_results |-> results,
     execution_time_ms |-> ms, row_count |-> Len(results),
     error_message |-> None]

\* an exception no except clause catches leaves the function
Escaped(e) ==
    [raised |-> e.type, success |-> FALSE, columns |-> <<>>, results |-> <<>>,
     raw_results |-> <<>>, execution_time_ms |-> 0, row_count |-> 0,
     error_message |-> e.msg]

\* variant: no except clause for QueryExecutionError
StudentQueryResultNoExecutionClause(e, columns, results, ms, timeout) ==
    CASE e.type = "none" -> SuccessResult(columns, results, ms)
      [] e.type = "UnsafeQueryError" -> FailureResult(0, e.msg)
      [] e.type = "QueryTimeoutError" ->
            FailureResult(timeout * 1000, <<"Query timeout: ">> \o e.msg)
      [] OTHER -> Escaped(e)

\* variant: a rejected query is reported like a timeout
StudentQueryResultUnsafeAsTimeout(e, columns, results, ms, timeout) ==
    CASE e.type = "none" -> SuccessResult(columns, results, ms)
      [] e.type \in {"UnsafeQueryError", "QueryTimeoutError"} ->
            FailureResult(timeout * 1000, <<"Query timeout: ">> \o e.msg)
      [] e.type = "QueryExecutionError" -> FailureResult(0, e.msg)
      [] OTHER -> Escaped(e)

\* execute_student_query, lines 162-210: the result built from what
\* executor.execute_query returned or raised
StudentQueryResult(e, columns, results, ms, timeout) ==
    CASE e.type = "none" -> SuccessResult(columns, results, ms)
      [] e.type = "UnsafeQueryError" -> FailureResult(0, e.msg)
      [] e.type = "QueryTimeoutError" ->
            FailureResult(timeout * 1000, <<"Query timeout: ">> \o e.msg)
      [] e.type = "QueryExecutionError" -> FailureResult(0, e.msg)
      [] OTHER -> Escaped(e)

RoIdle == [query |-> <<>>, db_path |-> "", thread |-> "", safe |-> FALSE,
           alarm |-> FALSE, effect |-> "", exc |-> NoExc, columns |-> <<>>,
           results |-> <<>>, time |-> 0, opened |-> 0,
           before |-> [p \in QuestionPaths |-> NoFile],
           result |-> FailureResult(0, None)]

\* execute_student_query(db_path, query) is called from a thread
RORequest ==
    /\ roPc = "idle"
    /\ ROFrame
    /\ client = "practice"
    /\ calls < MaxROCalls
    /\ calls' = calls + 1
    /\ \E q \in Queries : ro' = [RoIdle EXCEPT !.query = q, !.before = qfiles]
    /\ roPc' = "check"
    /\ UNCHANGED <<platform, qfiles, roConns>>

\* execute_query, lines 111-116
ROSafetyCheck ==
    /\ roPc = "check"
    /\ ROFrame
    /\ LET safe == is_safe_query(ro.query) IN
       IF safe
       THEN /\ ro' = [ro EXCEPT !.safe = TRUE]
            /\ roPc' = "connect"
       ELSE /\ ro' = [ro EXCEPT !.safe = FALSE,
                                !.exc = Exc("UnsafeQueryError", UnsafeMessage)]
            /\ roPc' = "handle"
    /\ UNCHANGED <<platform, qfiles, roConns, calls>>

\* execute_query, lines 120-121: the connection is opened.  A read-only open
\* of a missing file fails; a read-write open creates it.
ROConnect(p) ==
    /\ roPc = "connect"
    /\ ROFrame
    /\ IF ~Exists(qfiles, p) /\ ConnectMode = "ro"
       THEN /\ ro' = [ro EXCEPT !.db_path = p,
                                !.exc = WrapSqlite("unable to open database file")]
            /\ roPc' = "handle"
            /\ UNCHANGED <<qfiles, roConns>>
       ELSE /\ ro' = [ro EXCEPT !.db_path = p, !.opened = @ + 1]
            /\ roConns' = roConns + 1
            /\ qfiles' = IF Exists(qfiles, p) THEN qfiles
                         ELSE [qfiles EXCEPT ![p] = [kind |-> "empty", base |-> 0, muts |-> 0]]
            /\ roPc' = "alarm"
    /\ UNCHANGED <<platform, calls>>

\* execute_query, line 126: with self._timeout_handler()
ROEnterTimeout(thread) ==
    /\ roPc = "alarm"
    /\ ROFrame
    /\ LET entered == TimeoutEnter(platform, thread) IN
       IF entered = "ValueError"
       THEN /\ ro' = [ro EXCEPT !.thread = thread,
                                !.exc = WrapUnexpected("signal only works in main thread of the main interpreter")]
            /\ roPc' = "handle"
       ELSE /\ ro' = [ro EXCEPT !.thread = thread, !.alarm = (entered = "armed")]
            /\ roPc' = "exec"
    /\ UNCHANGED <<platform, qfiles, roConns, calls>>

\* execute_query, lines 127-133 and the except clauses 140-145
ROExecute(eff) ==
    /\ roPc = "exec"
    /\ ROFrame
    /\ LET r == ExecuteOutcome(ConnectMode, ro.alarm, eff, qfiles[ro.db_path], ROTimeout) IN
       /\ qfiles' = [qfiles EXCEPT ![ro.db_path] = r.content]
       /\ ro' = [ro EXCEPT !.effect = eff, !.exc = r.exc, !.columns = r.columns,
                           !.results = r.results, !.time = r.time]
       /\ roPc' = IF r.exc = NoExc THEN "close" ELSE "handle"
    /\ UNCHANGED <<platform, roConns, calls>>

\* execute_query, lines 135-138: cursor.close(); conn.close(); return
ROClose ==
    /\ roPc = "close"
    /\ ROFrame
    /\ roConns' = roConns - 1
    /\ roPc' = "handle"
    /\ UNCHANGED <<platform, qfiles, ro, calls>>

\* execute_student_query, lines 162-210
ROHandle ==
    /\ roPc = "handle"
    /\ ROFrame
    /\ ro' = [ro EXCEPT !.result =
                 StudentQueryResult(ro.exc, ro.columns, ro.results, ro.time, ROTimeout)]
    /\ roPc' = "done"
    /\ UNCHANGED <<platform, qfiles, roConns, calls>>

\* the caller has the result
ROReturn ==
    /\ roPc = "done"
    /\ ROFrame
    /\ ro' = RoIdle
    /\ roPc' = "idle"
    /\ UNCHANGED <<platform, qfiles, roConns, calls>>

ROInit ==
    /\ platform \in {"unix", "windows"}
    /\ qfiles = [p \in QuestionPaths |->
                    IF p = "question.db" THEN QuestionContent ELSE NoFile]
    /\ roPc = "idle"
    /\ ro = RoIdle
    /\ roConns = 0
    /\ calls = 0

(***************************************************************************)
(* Read-write lab executor (core/lab_query_executor.py).                   *)
(*                                                                         *)
(* A query is its text and the statements the text holds.  A statement is  *)
(* a retrieval, a change of the connection's main database, ATTACH of a    *)
(* file, a change of an attached database, VACUUM INTO a file, or a        *)
(* statement the backend rejects.                                          *)
(***************************************************************************)
MaxLabCalls == 2

LabTimeout == 15

\* the worker threads that can run at a time
WorkerSlots == {1, 2}

Stmt(kind, target) == [kind |-> kind, target |-> target]
NoTarget == <<"none", 0, 0>>

\* the student whose calls are modelled, and the files that are not theirs
OwnPath == get_student_session_path(1, 1)
OtherPaths == Paths \ {OwnPath}

LabQueries ==
    {[text |-> <<"S", "E", "L", "E", "C", "T", " ", "x">>, stmts |-> <<Stmt("select", NoTarget)>>],
     [text |-> <<" ", "s", "e", "l", "e", "c", "t", " ", "x", " ">>, stmts |-> <<Stmt("select", NoTarget)>>],
     [text |-> <<"I", "N", "S", "E", "R", "T">>, stmts |-> <<Stmt("write", NoTarget)>>],
     [text |-> <<"S", "E", "L", "E", "C">>, stmts |-> <<Stmt("bad", NoTarget)>>]}
    \cup {[text |-> <<"A", "T", "T", "A", "C", "H">>, stmts |-> <<Stmt("attach", p)>>] : p \in OtherPaths}
    \cup {[text |-> <<"U", "P", "D", "A", "T", "E", " ", "o">>, stmts |-> <<Stmt("write_attached", p)>>] : p \in OtherPaths}
    \cup {[text |-> <<"A", "T", "T", "A", "C", "H", ";", " ", "I", "N", "S", "E", "R", "T">>, stmts |-> <<Stmt("attach", p), Stmt("write_attached", p)>>] :
             p \in OtherPaths}
    \cup {[text |-> <<"V", "A", "C", "U", "U", "M">>, stmts |-> <<Stmt("vacuum_into", p)>>] : p \in OtherPaths}

\* the state of a connection while it runs statements: the file system, the
\* databases attached to it, the databases its open transaction has changed,
\* what the cursor holds, and the error raised ("" for none)
ConnState(fs) ==
    [fs |-> fs, attached |-> {}, pending |-> {}, columns |-> <<>>,
     results |-> <<>>, err |-> ""]

\* One statement on a connection whose main database is the file own.
\* ATTACH opens the target and creates it when it is missing; VACUUM INTO
\* writes a copy of the main database to a target that is missing or is an
\* empty file and fails on any other target.
RunStatement(st, stmt, own) ==
    CASE stmt.kind = "select" ->
            IF st.fs[own].kind = "db"
            THEN [st EXCEPT !.columns = TableColumns, !.results = TableRows(st.fs[own])]
            ELSE [st EXCEPT !.err = "no such table"]
      [] stmt.kind = "write" -> [st EXCEPT !.pending = @ \cup {own}]
      [] stmt.kind = "attach" ->
            [st EXCEPT !.attached = @ \cup {stmt.target},
                       !.fs = IF Exists(st.fs, stmt.target) THEN @
                              ELSE [@ EXCEPT ![stmt.target] = EmptyFile]]
      [] stmt.kind = "write_attached" ->
            IF stmt.target \in st.attached
            THEN [st EXCEPT !.pending = @ \cup {stmt.target}]
            ELSE [st EXCEPT !.err = "no such table"]
      [] stmt.kind = "vacuum_into" ->
            IF st.fs[stmt.target].kind = "db"
            THEN [st EXCEPT !.err = "output file already exists"]
            ELSE [st EXCEPT !.fs = [@ EXCEPT ![stmt.target] = st.fs[own]]]
      [] OTHER -> [st EXCEPT !.err = "syntax error"]

RECURSIVE RunScript(_, _, _)
RunScript(st, stmts, own) ==
    IF stmts = <<>> \/ st.err # "" THEN st
    ELSE RunScript(RunStatement(st, Head(stmts), own), Tail(stmts), own)

\* variant: every statement of the text is run (cursor.executescript)
cursor_executescript(st, stmts, own) == RunScript(st, stmts, own)

\* line 59: cursor.execute(query) runs one statement and refuses a text that
\* holds more than one
cursor_execute(st, stmts, own) ==
    IF Len(stmts) > 1
    THEN [st EXCEPT !.err = "You can only execute one statement at a time."]
    ELSE RunScript(st, stmts, own)

\* conn.commit(): the open transaction's changes reach the files
RECURSIVE CommitAll(_, _)
CommitAll(fs, pending) ==
    IF pending = {} THEN fs
    ELSE LET p == CHOOSE x \in pending : TRUE
         IN  CommitAll([fs EXCEPT ![p] = ApplyWrite(fs[p])], pending \ {p})

\* variant: the text is compared as it was sent
IsSelectTextAsSent(text) == StartsWith(text, SELECT)

\* line 62: query.strip().upper().startswith('SELECT')
IsSelectText(text) == StartsWith(Upper(Strip(text)), SELECT)

NoContainer == [columns |-> <<>>, results |-> <<>>, error |-> "", done |-> FALSE]

WorkerNone == [pc |-> "none", path |-> NoTarget, query |-> [text |-> <<>>, stmts |-> <<>>],
               conn |-> FALSE, pending |-> {}, columns |-> <<>>, results |-> <<>>,
               container |-> NoContainer, detached |-> FALSE, own |-> NoFile]

\* the files as worker w's connection sees them, and the files on disk when
\* the connection has made fs of what it sees: a connection whose database
\* file was removed reads and writes the removed file
ConnFiles(w) ==
    IF workers[w].detached
    THEN [files EXCEPT ![workers[w].path] = workers[w].own] ELSE files

DiskFiles(w, fs) ==
    IF workers[w].detached
    THEN [fs EXCEPT ![workers[w].path] = files[workers[w].path]] ELSE fs

OwnFile(w, fs) == IF workers[w].detached THEN fs[workers[w].path] ELSE NoFile

LqIdle == [pc |-> "idle", path |-> NoTarget, query |-> [text |-> <<>>, stmts |-> <<>>],
           cur |-> 0, timedOut |-> FALSE, alive |-> FALSE, exc |-> NoExc,
           columns |-> <<>>, results |-> <<>>, time |-> 0,
           result |-> [success |-> FALSE, columns |-> <<>>, results |-> <<>>,
                       execution_time_ms |-> 0, row_count |-> 0,
                       error_message |-> None]]

\* variant: the caller does not look at thread.is_alive()
LabCheckOutcomeWithoutAliveCheck(alive, container, timeout_seconds) ==
    IF container.error # ""
    THEN [exc |-> Exc("LabQueryExecutionError",
                      <<"SQL execution error: ", container.error>>),
          columns |-> <<>>, results |-> <<>>]
    ELSE [exc |-> NoExc, columns |-> container.columns, results |-> container.results]

\* variant: the caller does not look at the error the worker stored
LabCheckOutcomeIgnoringError(alive, container, timeout_seconds) ==
    IF alive
    THEN [exc |-> Exc("LabQueryTimeoutError", TimeoutMessage(timeout_seconds)),
          columns |-> <<>>, results |-> <<>>]
    ELSE [exc |-> NoExc, columns |-> container.columns, results |-> container.results]

\* lines 99-115: after the join, the caller raises LabQueryTimeoutError when
\* the worker thread is alive, LabQueryExecutionError when the worker stored
\* an error, and returns the container's columns and results otherwise
LabCheckOutcome(alive, container, timeout_seconds) ==
    IF alive
    THEN [exc |-> Exc("LabQueryTimeoutError", TimeoutMessage(timeout_seconds)),
          columns |-> <<>>, results |-> <<>>]
    ELSE IF container.error # ""
    THEN [exc |-> Exc("LabQueryExecutionError",
                      <<"SQL execution error: ", container.error>>),
          columns |-> <<>>, results |-> <<>>]
    ELSE [exc |-> NoExc, columns |-> container.columns, results |-> container.results]

LabFailureResult(ms, message) ==
    [success |-> FALSE, columns |-> <<>>, results |-> <<>>,
     execution_time_ms |-> ms, row_count |-> 0, error_message |-> message]

\* execute_lab_query, lines 131-176
LabQueryResult(e, columns, results, ms, timeout) ==
    CASE e.type = "none" ->
            [success |-> TRUE, columns |-> columns,
             results |-> RowDicts(columns, results), execution_time_ms |-> ms,
             row_count |-> Len(results), error_message |-> None]
      [] e.type = "LabQueryTimeoutError" ->
            LabFailureResult(timeout * 1000, <<"Query timeout: ">> \o e.msg)
      [] e.type = "LabQueryExecutionError" -> LabFailureResult(0, e.msg)
      [] OTHER -> LabFailureResult(0, <<"Unexpected error: ">> \o e.msg)

FreeSlots == {w \in WorkerSlots : workers[w].pc = "none"}

\* lines 92-95: the worker thread for statement q is started in the first
\* free slot, and the caller goes on to wait for it
StartWorker(q) ==
    LET w == CHOOSE x \in FreeSlots : \A y \in FreeSlots : x <= y IN
    /\ lq' = [LqIdle EXCEPT !.pc = "join", !.path = OwnPath, !.query = q, !.cur = w]
    /\ workers' = [workers EXCEPT ![w] =
                      [WorkerNone EXCEPT !.pc = "w_connect", !.path = OwnPath,
                                         !.query = q]]

\* execute_lab_query(db_path, query, timeout=15) is called with the student's
\* own session database
LabRequest ==
    /\ lq.pc = "idle"
    /\ LXFrame
    /\ client = "lab"
    /\ calls < MaxLabCalls
    /\ FreeSlots # {}
    /\ calls' = calls + 1
    /\ \E q \in LabQueries : StartWorker(q)
    /\ UNCHANGED files

\* the statements that change the student's own database
WriteQueries == {q \in LabQueries : q.stmts = <<Stmt("write", NoTarget)>>}

\* execute_lab_query is called with a statement that changes the database
LabStatement ==
    /\ lq.pc = "idle"
    /\ LXFrame
    /\ client = "lab"
    /\ calls < MaxLabCalls
    /\ FreeSlots # {}
    /\ calls' = calls + 1
    /\ \E q \in WriteQueries : StartWorker(q)
    /\ UNCHANGED files

\* line 55: conn = sqlite3.connect(self.db_path), read-write; a missing file
\* is created
WConnect(w) ==
    /\ workers[w].pc = "w_connect"
    /\ LXFrame
    /\ files' = IF Exists(files, workers[w].path) THEN files
                ELSE [files EXCEPT ![workers[w].path] = EmptyFile]
    /\ workers' = [workers EXCEPT ![w].pc = "w_exec", ![w].conn = TRUE]
    /\ UNCHANGED <<lq, calls>>

\* line 59: cursor.execute(query); an exception goes to lines 75-77
WExecute(w) ==
    /\ workers[w].pc = "w_exec"
    /\ LXFrame
    /\ LET st == cursor_execute(ConnState(ConnFiles(w)), workers[w].query.stmts,
                                 workers[w].path) IN
       /\ files' = DiskFiles(w, st.fs)
       /\ workers' =
            IF st.err # ""
            THEN [workers EXCEPT ![w].pc = "w_close",
                                 ![w].container = [NoContainer EXCEPT !.error = st.err,
                                                                      !.done = TRUE]]
            ELSE [workers EXCEPT ![w].pc = "w_post", ![w].pending = st.pending,
                                 ![w].columns = st.columns, ![w].results = st.results]
    /\ UNCHANGED <<lq, calls>>

\* lines 62-73: a text that begins with SELECT has its rows fetched; any
\* other statement is committed and yields no columns and no rows
WPost(w) ==
    /\ workers[w].pc = "w_post"
    /\ LXFrame
    /\ IF IsSelectText(workers[w].query.text)
       THEN /\ workers' = [workers EXCEPT
                             ![w].pc = "w_close",
                             ![w].container = [columns |-> workers[w].columns,
                                               results |-> workers[w].results,
                                               error |-> "", done |-> TRUE]]
            /\ UNCHANGED files
       ELSE LET fs == CommitAll(ConnFiles(w), workers[w].pending) IN
            /\ files' = DiskFiles(w, fs)
            /\ workers' = [workers EXCEPT
                             ![w].pc = "w_close", ![w].pending = {},
                             ![w].own = OwnFile(w, fs),
                             ![w].container = [NoContainer EXCEPT !.done = TRUE]]
    /\ UNCHANGED <<lq, calls>>

\* lines 78-89: cursor.close(); conn.close(); the thread ends.  An
\* uncommitted transaction is rolled back.  The slot of a worker whose caller
\* has gone is free again.
WClose(w) ==
    /\ workers[w].pc = "w_close"
    /\ LXFrame
    /\ workers' = [workers EXCEPT ![w] =
                      IF lq.cur = w
                      THEN [@ EXCEPT !.pc = "ended", !.conn = FALSE, !.pending = {},
                                     !.detached = FALSE, !.own = NoFile]
                      ELSE WorkerNone]
    /\ UNCHANGED <<files, lq, calls>>

\* line 96: thread.join(timeout) returns because the worker thread ended
LabJoinFinished ==
    /\ lq.pc = "join"
    /\ LXFrame
    /\ workers[lq.cur].pc = "ended"
    /\ lq' = [lq EXCEPT !.pc = "check", !.timedOut = FALSE, !.time = 1]
    /\ UNCHANGED <<files, workers, calls>>

\* line 96: thread.join(timeout) returns because timeout_seconds elapsed
\* while the worker thread had not ended; line 98 measures the time
LabJoinTimeout ==
    /\ lq.pc = "join"
    /\ LXFrame
    /\ workers[lq.cur].pc # "ended"
    /\ lq' = [lq EXCEPT !.pc = "check", !.timedOut = TRUE, !.time = LabTimeout * 1000]
    /\ UNCHANGED <<files, workers, calls>>

\* lines 101-115: thread.is_alive() and the container are read
LabCheck ==
    /\ lq.pc = "check"
    /\ LXFrame
    /\ LET alive == workers[lq.cur].pc # "ended"
           r == LabCheckOutcome(alive, workers[lq.cur].container, LabTimeout)
       IN  lq' = [lq EXCEPT !.pc = "handle", !.alive = alive, !.exc = r.exc,
                            !.columns = r.columns, !.results = r.results]
    /\ UNCHANGED <<files, workers, calls>>

\* execute_lab_query, lines 131-176
LabHandle ==
    /\ lq.pc = "handle"
    /\ LXFrame
    /\ lq' = [lq EXCEPT !.pc = "done",
                        !.result = LabQueryResult(lq.exc, lq.columns, lq.results,
                                                  lq.time, LabTimeout)]
    /\ UNCHANGED <<files, workers, calls>>

\* the caller has the result; a worker that has not ended runs on
LabReturn ==
    /\ lq.pc = "done"
    /\ LXFrame
    /\ lq' = LqIdle
    /\ workers' = IF workers[lq.cur].pc = "ended"
                  THEN [workers EXCEPT ![lq.cur] = WorkerNone]
                  ELSE workers
    /\ UNCHANGED <<files, calls>>

(***************************************************************************)
(* Answer validator (core/answer_validator.py).  A result set is a list of *)
(* column names and a list of rows as sqlite3 returns them; a cell is      *)
(* None, an int, a float, a str or a bytes object.  Texts are sequences of *)
(* characters, so that str.strip, json.dumps and the string comparison of  *)
(* sorted() are computed.                                                  *)
(***************************************************************************)
MaxRows == 3
MaxCells == 4

\* a cell value: its Python type and its text (repr of a number, characters
\* of a str, bytes of a bytes object); utf8 tells whether bytes decode.  A
\* float takes the branch of an int (line 27) and is written by its repr.
PyNone == [type |-> "NoneType", text |-> <<>>, utf8 |-> TRUE]
PyInt(digits) == [type |-> "int", text |-> digits, utf8 |-> TRUE]
PyStr(chars) == [type |-> "str", text |-> chars, utf8 |-> TRUE]
PyBytes(chars, utf8) == [type |-> "bytes", text |-> chars, utf8 |-> utf8]

CellValues ==
    {PyNone, PyInt(<<"1">>), PyStr(<<"a">>), PyStr(<<" ", "a">>),
     PyBytes(<<"a">>, TRUE), PyBytes(<<"\\xff">>, FALSE)}

ColumnNames == {<<"i", "d">>, <<"n", "a", "m", "e">>}
ColumnLists == [1..1 -> ColumnNames] \cup [1..2 -> ColumnNames]

\* the result sets of the model: at most MaxRows rows and MaxCells cells
RowCounts(ncols) == {n \in 0..MaxRows : n * ncols <= MaxCells}
RowLists(ncols) ==
    UNION {[1..n -> [1..ncols -> CellValues]] : n \in RowCounts(ncols)}
ResultSets ==
    UNION {{[columns |-> c, rows |-> r] : r \in RowLists(Len(c))} : c \in ColumnLists}

\* code points, in increasing order, of the characters that occur
CodePoints ==
    <<" ", "\"", ",", ".", "0", "1", "2", ":", "[", "\\", "]">>
    \o LowerLetters \o <<"{", "}">>
Ord ==
    [c \in {CodePoints[i] : i \in 1..Len(CodePoints)} |->
        CHOOSE i \in 1..Len(CodePoints) : CodePoints[i] = c]

\* s < t for two str objects: lexicographic by code point; a proper prefix
\* is less
StrLess(s, t) ==
    LET differ == {i \in 1..Len(s) : i <= Len(t) /\ s[i] # t[i]}
    IN IF differ = {} THEN Len(s) < Len(t)
       ELSE LET first == CHOOSE i \in differ : \A j \in differ : i <= j
            IN Ord[s[first]] < Ord[t[first]]

\* normalize_results, lines 22-35: the value stored in the row dict, or
\* the exception value.decode raises
NormalizeValue(value) ==
    CASE value.type = "NoneType" -> [raised |-> "none", value |-> PyNone]
      [] value.type \in {"int", "float"} -> [raised |-> "none", value |-> value]
      [] value.type = "bytes" ->
            IF value.utf8 THEN [raised |-> "none", value |-> PyStr(value.text)]
            ELSE [raised |-> "UnicodeDecodeError", value |-> PyNone]
      [] OTHER -> [raised |-> "none", value |-> PyStr(Strip(value.text))]

\* normalize_results, lines 20-37: row_dict[col_name] = value for each
\* position; a later position with the same name overwrites an earlier one
RowDict(row, columns) ==
    [name \in {columns[i] : i \in 1..Len(columns)} |->
        LET last == CHOOSE i \in 1..Len(columns) :
                        /\ columns[i] = name
                        /\ \A j \in (i + 1)..Len(columns) : columns[j] # name
        IN NormalizeValue(row[last]).value]

\* the first exception the loop of lines 19-37 raises
NormalizeRaised(results, columns) ==
    IF \E r \in 1..Len(results), i \in 1..Len(columns) :
            NormalizeValue(results[r][i]).raised # "none"
    THEN "UnicodeDecodeError"
    ELSE "none"

\* json.dumps of a str: quoted, with quote and backslash escaped
RECURSIVE JsonEscape(_)
JsonEscape(s) ==
    IF s = <<>> THEN <<>>
    ELSE (IF Head(s) \in {"\"", "\\"} THEN <<"\\", Head(s)>> ELSE <<Head(s)>>)
         \o JsonEscape(Tail(s))

JsonValue(v) ==
    CASE v.type = "NoneType" -> <<"n", "u", "l", "l">>
      [] v.type \in {"int", "float"} -> v.text
      [] OTHER -> <<"\"">> \o JsonEscape(v.text) \o <<"\"">>

\* the keys of a dict in the order sort_keys=True writes them
RECURSIVE SortedKeys(_)
SortedKeys(keys) ==
    IF keys = {} THEN <<>>
    ELSE LET least == CHOOSE k \in keys : \A other \in keys \ {k} : StrLess(k, other)
         IN <<least>> \o SortedKeys(keys \ {least})

RECURSIVE JsonItems(_, _)
JsonItems(d, keys) ==
    IF keys = <<>> THEN <<>>
    ELSE <<"\"">> \o JsonEscape(Head(keys)) \o <<"\"", ":", " ">> \o JsonValue(d[Head(keys)])
         \o (IF Len(keys) > 1 THEN <<",", " ">> ELSE <<>>)
         \o JsonItems(d, Tail(keys))

\* json.dumps(x, sort_keys=True, default=str) of a row dict
JsonDict(d) == <<"{">> \o JsonItems(d, SortedKeys(DOMAIN d)) \o <<"}">>

\* sorted(result_dicts, key=...), lines 41-44: the key is computed once
\* for each dict; the sort is stable and ascending by key
RECURSIVE InsertByKey(_, _)
InsertByKey(item, sorted) ==
    IF sorted = <<>> THEN <<item>>
    ELSE IF StrLess(item.key, Head(sorted).key)
         THEN <<item>> \o sorted
         ELSE <<Head(sorted)>> \o InsertByKey(item, Tail(sorted))

RECURSIVE SortedItems(_)
SortedItems(items) ==
    IF items = <<>> THEN <<>>
    ELSE InsertByKey(items[Len(items)], SortedItems(SubSeq(items, 1, Len(items) - 1)))

SortedByKey(dicts) ==
    LET items == [r \in 1..Len(dicts) |-> [key |-> JsonDict(dicts[r]), dict |-> dicts[r]]]
        sorted == SortedItems(items)
    IN [r \in 1..Len(dicts) |-> sorted[r].dict]

\* variant: the row dicts are returned in the order of the rows
normalize_results_unsorted(results, columns) ==
    [r \in 1..Len(results) |-> RowDict(results[r], columns)]

\* normalize_results (when no row raises)
normalize_results(results, columns) ==
    SortedByKey([r \in 1..Len(results) |-> RowDict(results[r], columns)])

\* json.dumps(normalized, sort_keys=True, default=str) of the list
RECURSIVE JsonRows(_)
JsonRows(dicts) ==
    IF dicts = <<>> THEN <<>>
    ELSE JsonDict(Head(dicts))
         \o (IF Len(dicts) > 1 THEN <<",", " ">> ELSE <<>>)
         \o JsonRows(Tail(dicts))

JsonList(dicts) == <<"[">> \o JsonRows(dicts) \o <<"]">>

\* hashlib.sha256(...).hexdigest(): 64 hexadecimal characters; two texts
\* have the same digest exactly when they are the same text
HexDigestLength == 64
sha256_hexdigest(text) == [length |-> HexDigestLength, of |-> text]

NoDigest == [length |-> 0, of |-> <<>>]

\* generate_hash: the digest returned, or the exception that leaves it
generate_hash(results, columns) ==
    IF NormalizeRaised(results, columns) # "none"
    THEN [raised |-> NormalizeRaised(results, columns), digest |-> NoDigest]
    ELSE [raised |-> "none",
          digest |-> sha256_hexdigest(JsonList(normalize_results(results, columns)))]

\* validate_answer: user_hash == correct_hash, or the exception
validate_answer(user_results, user_columns, correct_hash) ==
    LET user_hash == generate_hash(user_results, user_columns)
    IN [raised |-> user_hash.raised,
        value |-> user_hash.raised = "none" /\ user_hash.digest = correct_hash]

PxIdle == [pc |-> "idle", columns |-> <<>>, rows |-> <<>>,
           hash |-> [raised |-> "none", digest |-> NoDigest],
           stored |-> NoDigest, user |-> 0, query |-> <<>>,
           result |-> FailureResult(0, None), is_correct |-> FALSE, status |-> 0]

\* no practice request is in progress and no attempt has been recorded
\* generate_unique_filename, db_generator.py lines 33-40: uuid4 names are
\* modelled by the naturals, issued in order, so that no name is issued twice
MaxNames == 3
FileNames == 1..MaxNames

\* no question endpoint is being served
QxIdle == [pc |-> "idle", op |-> "none", question |-> 0,
           sql_changed |-> FALSE, db_filename |-> 0,
           raised |-> "none", failure |-> "none", issued |-> 0, status |-> 0]

\* no question has been created yet
CatalogIdle ==
    /\ questions = <<>>
    /\ qdir = [n \in FileNames |-> NoFile]
    /\ qx = QxIdle

PracticeIdle ==
    /\ attempts = <<>>
    /\ px = PxIdle
    /\ progress = <<>>
    /\ CatalogIdle

\* a caller applies generate_hash to the result set it holds
GenerateHash ==
    /\ px.pc = "input"
    /\ px' = [px EXCEPT !.pc = "hashed", !.hash = generate_hash(px.rows, px.columns)]
    /\ UNCHANGED <<lifecycleVars, execVars, attempts, progress, catalogVars>>

(***************************************************************************)
(* The practice execute endpoint (api/v1/endpoints/execute.py 18-119).     *)
(* execute_student_query is one step here: it returns one of the results   *)
(* the read-only executor above builds.  The question's                    *)
(* correct_answer_hash is the digest generate_hash returned for the        *)
(* reference result when the question was created (questions.py 63).       *)
(***************************************************************************)
MaxAttempts == 2

PracticeUsers == {1, 2}
PracticeQuery == SELECT

\* results of one column and at most one row
PracticeResultSets ==
    {[columns |-> << <<"i", "d">> >>, rows |-> r] :
        r \in {<<>>} \cup {<<row>> : row \in [1..1 -> CellValues]}}

\* what executor.execute_query does inside execute_student_query
PracticeExcs ==
    {NoExc, Exc("UnsafeQueryError", UnsafeMessage),
     Exc("QueryTimeoutError", TimeoutMessage(ROTimeout)),
     WrapSqlite("no such table")}

\* Attempt(...), lines 72-79
NewAttempt(user_id, query, is_correct, result) ==
    [user_id |-> user_id, question_id |-> 1, query |-> query,
     is_correct |-> IF is_correct THEN 1 ELSE 0,
     execution_time_ms |-> result.execution_time_ms,
     error_message |-> result.error_message]

\* line 54: result = execute_student_query(db_path, execute_request.query)
PracticeExecute ==
    /\ px.pc = "idle"
    /\ Len(attempts) < MaxAttempts
    /\ \E u \in PracticeUsers, e \in PracticeExcs, rs \in PracticeResultSets :
          px' = [px EXCEPT !.pc = "validate", !.user = u, !.query = PracticeQuery,
                           !.result = StudentQueryResult(e, rs.columns, rs.rows, 1, ROTimeout),
                           !.is_correct = FALSE, !.status = 0]
    /\ UNCHANGED <<lifecycleVars, execVars, attempts, progress, catalogVars>>

\* variant: the result is validated whether or not the execution succeeded
PracticeValidateIgnoringSuccess ==
    /\ px.pc = "validate"
    /\ LET v == validate_answer(px.result.raw_results, px.result.columns, px.stored)
       IN px' = [px EXCEPT !.pc = IF v.raised = "none" THEN "save" ELSE "raise",
                           !.is_correct = v.value]
    /\ UNCHANGED <<lifecycleVars, execVars, attempts, progress, catalogVars>>

\* lines 57-69: validate_answer is called for a successful execution only;
\* an exception it raises leaves the handler
PracticeValidate ==
    /\ px.pc = "validate"
    /\ IF px.result.success
       THEN LET v == validate_answer(px.result.raw_results, px.result.columns, px.stored)
            IN px' = [px EXCEPT !.pc = IF v.raised = "none" THEN "save" ELSE "raise",
                                !.is_correct = v.value]
       ELSE px' = [px EXCEPT !.pc = "save", !.is_correct = FALSE]
    /\ UNCHANGED <<lifecycleVars, execVars, attempts, progress, catalogVars>>

\* datetime.utcnow(), lines 91-105: the clock is modelled by the number of
\* the attempt that is being recorded
PracticeClock == Len(attempts) + 1

\* lines 83-86: the index of the first progress row of the user and the
\* question, 0 modelling None
FirstProgress(rows, user_id, question_id) ==
    LET found == {i \in 1..Len(rows) : /\ rows[i].user_id = user_id
                                        /\ rows[i].question_id = question_id}
    IN IF found = {} THEN 0 ELSE CHOOSE i \in found : \A j \in found : i <= j

\* variant: every correct attempt stamps the completion again
UpdateProgressRestamping(row, is_correct, now) ==
    [row EXCEPT !.attempts_count = @ + 1,
                !.last_attempted_at = now,
                !.completed = IF is_correct THEN 1 ELSE @,
                !.first_completed_at = IF is_correct THEN now ELSE @]

\* lines 88-96: the existing row counts the attempt, and the first correct
\* answer marks it completed
UpdateProgress(row, is_correct, now) ==
    [row EXCEPT !.attempts_count = @ + 1,
                !.last_attempted_at = now,
                !.completed = IF is_correct /\ row.completed = 0 THEN 1 ELSE @,
                !.first_completed_at = IF is_correct /\ row.completed = 0 THEN now ELSE @]

\* lines 98-107: UserProgress(...), first_completed_at None modelled by 0
NewProgress(user_id, question_id, is_correct, now) ==
    [user_id |-> user_id, question_id |-> question_id,
     completed |-> IF is_correct THEN 1 ELSE 0,
     attempts_count |-> 1,
     last_attempted_at |-> now,
     first_completed_at |-> IF is_correct THEN now ELSE 0]

\* lines 71-119: the attempt is added, the progress row of the user and the
\* question is updated or created, both are committed together, and the
\* response is returned
PracticeSave ==
    /\ px.pc = "save"
    /\ attempts' = Append(attempts, NewAttempt(px.user, px.query, px.is_correct, px.result))
    /\ LET i == FirstProgress(progress, px.user, 1) IN
       progress' = IF i # 0
                   THEN [progress EXCEPT ![i] = UpdateProgress(@, px.is_correct, PracticeClock)]
                   ELSE Append(progress, NewProgress(px.user, 1, px.is_correct, PracticeClock))
    /\ px' = [px EXCEPT !.pc = "idle", !.status = 200]
    /\ UNCHANGED <<lifecycleVars, execVars, catalogVars>>

\* the exception leaves execute_query: nothing was added to the database
\* session, and the server answers 500
PracticeRaise ==
    /\ px.pc = "raise"
    /\ px' = [px EXCEPT !.pc = "idle", !.status = 500]
    /\ UNCHANGED <<lifecycleVars, execVars, attempts, progress, catalogVars>>

(***************************************************************************)
(* Question endpoints: api/v1/endpoints/questions.py with                  *)
(* utils/db_generator.py.  One request is served at a time; the title,     *)
(* description and difficulty of a question are left out.                  *)
(***************************************************************************)
MaxQuestions == 2

\* what the SQL of a request does, drawn where the code runs it: whether
\* validate_sql_statements accepts the texts, what the schema script and the
\* data script do in sqlite ("unexpected" is an exception that is no
\* sqlite3.Error, such as the ValueError of an embedded null character),
\* and what the answer query and generate_hash do with the new database
BuildScripts ==
    [valid : BOOLEAN,
     schema : {"tables", "no_tables", "sql_error", "unexpected"},
     data : {"ok", "sql_error", "unexpected"}]

AnswerOutcomes == {"ok", "sql_error", "hash_raises"}

\* the database built from the scripts of one request, named by its file
QuestionDb(db_filename) == [kind |-> "db", base |-> db_filename, muts |-> 0]

\* Question(...), questions.py lines 66-75
NewQuestion(db_filename) == [db_file_path |-> db_filename, is_deleted |-> 0]

\* the query of lines 201-204 and 297-300: the row that is not deleted
QuestionFound(q) == q \in 1..Len(questions) /\ questions[q].is_deleted = 0

\* create_sqlite_from_sql, lines 106-154, for scripts that passed the
\* validation: the content of the new file when the function is left, and
\* the exception it raises.  After a sqlite3.Error or with no table the
\* connection is closed and the file removed; an os.remove that raises, and
\* any other exception, reach the handler of line 147, which removes the
\* file if it can (on windows not while the connection is open) and
\* re-raises
BuildOutcome(script, db_filename, plat, io_ok) ==
    LET schema_file == IF script.schema = "tables"
                       THEN [kind |-> "schema", base |-> db_filename, muts |-> 0]
                       ELSE EmptyFile
        cleaned(raised, content) ==
            IF io_ok THEN [file |-> NoFile, raised |-> raised, failure |-> "none"]
            ELSE [file |-> content, raised |-> "Exception", failure |-> "none"]
        handled(content) ==
            [file |-> IF io_ok /\ plat = "unix" THEN NoFile ELSE content,
             raised |-> "Exception", failure |-> "none"]
    IN CASE script.schema = "sql_error" ->
               [cleaned("DatabaseGenerationError", EmptyFile) EXCEPT !.failure = "schema"]
         [] script.schema = "unexpected" ->
               [handled(EmptyFile) EXCEPT !.failure = "schema"]
         [] script.data = "sql_error" ->
               [cleaned("DatabaseGenerationError", schema_file) EXCEPT !.failure = "data"]
         [] script.data = "unexpected" ->
               [handled(schema_file) EXCEPT !.failure = "data"]
         [] script.schema = "no_tables" ->
               [cleaned("DatabaseGenerationError", EmptyFile) EXCEPT !.failure = "no_tables"]
         [] OTHER -> [file |-> QuestionDb(db_filename), raised |-> "none",
                      failure |-> "none"]

\* delete_question_database, db_generator.py lines 199-206: the file is
\* removed if it exists; an os.remove that raises is printed and ignored
delete_question_database(dir, db_filename, io_ok) ==
    IF Exists(dir, db_filename) /\ io_ok THEN Removed(dir, db_filename) ELSE dir

\* create_question is called, lines 28-47
CreateQuestion ==
    /\ qx.pc = "idle"
    /\ Len(questions) < MaxQuestions
    /\ qx.issued < MaxNames
    /\ qx' = [QxIdle EXCEPT !.pc = "generate", !.op = "create_question",
                            !.issued = qx.issued]
    /\ UNCHANGED <<lifecycleVars, execVars, attempts, px, progress, questions, qdir>>

\* update_question, lines 201-224: 404 without the row; with SQL in the
\* request the three texts are chosen, and question.correct_answer_query,
\* which the Question model does not have, raises AttributeError when the
\* request brings no answer query
UpdateQuestion(q) ==
    /\ qx.pc = "idle"
    /\ qx.issued < MaxNames
    /\ IF ~QuestionFound(q)
       THEN qx' = [QxIdle EXCEPT !.op = "update_question", !.question = q,
                                 !.status = 404, !.issued = qx.issued]
       ELSE \E sql_changed, has_query \in BOOLEAN :
              qx' = [QxIdle EXCEPT
                       !.op = "update_question", !.question = q,
                       !.sql_changed = sql_changed,
                       !.issued = qx.issued,
                       !.raised = IF sql_changed /\ ~has_query THEN "Exception" ELSE "none",
                       !.failure = IF sql_changed /\ ~has_query THEN "attribute" ELSE "none",
                       !.pc = CASE ~sql_changed -> "commit"
                                [] ~has_query -> "except"
                                [] OTHER -> "delete_old"]
    /\ UNCHANGED <<lifecycleVars, execVars, attempts, px, progress, questions, qdir>>

\* line 227: delete_question_database(question.db_file_path)
UpdateQuestionDeleteOld ==
    /\ qx.pc = "delete_old"
    /\ \E io_ok \in BOOLEAN :
          qdir' = delete_question_database(qdir, questions[qx.question].db_file_path, io_ok)
    /\ qx' = [qx EXCEPT !.pc = "generate"]
    /\ UNCHANGED <<lifecycleVars, execVars, attempts, px, progress, questions>>

\* create_sqlite_from_sql, db_generator.py lines 94-154: the three texts are
\* validated, a new name is generated and the database is built in that file
CreateSqliteFromSql ==
    /\ qx.pc = "generate"
    /\ \E script \in BuildScripts, io_ok \in BOOLEAN :
         IF ~script.valid
         THEN /\ qx' = [qx EXCEPT !.pc = "except", !.raised = "SQLValidationError",
                                  !.failure = "validation"]
              /\ UNCHANGED qdir
         ELSE LET db_filename == qx.issued + 1
                  built == BuildOutcome(script, db_filename, platform, io_ok)
              IN /\ qdir' = [qdir EXCEPT ![db_filename] = built.file]
                 /\ qx' = [qx EXCEPT !.issued = db_filename,
                                     !.db_filename = db_filename,
                                     !.raised = built.raised,
                                     !.failure = built.failure,
                                     !.pc = IF built.raised = "none" THEN "answer"
                                            ELSE "except"]
    /\ UNCHANGED <<lifecycleVars, execVars, attempts, px, progress, questions>>

\* questions.py lines 57-63 and 237-238: execute_query_on_database
\* (db_generator.py lines 171-189) runs the answer query on the new file,
\* sqlite3.Error becoming DatabaseGenerationError, and generate_hash hashes
\* the result
AnswerHash ==
    /\ qx.pc = "answer"
    /\ \E answer \in AnswerOutcomes :
          qx' = [qx EXCEPT
                   !.raised = CASE answer = "sql_error" -> "DatabaseGenerationError"
                                [] answer = "hash_raises" -> "Exception"
                                [] OTHER -> "none",
                   !.failure = IF answer = "ok" THEN "none" ELSE answer,
                   !.pc = IF answer = "ok" THEN "commit" ELSE "except"]
    /\ UNCHANGED <<lifecycleVars, execVars, attempts, px, progress, questions, qdir>>

\* create_question lines 66-81, update_question lines 240-257: the row is
\* added, or its database fields are set, and committed; a commit that
\* raises goes to the handler
QuestionCommit ==
    /\ qx.pc = "commit"
    /\ \E commit_ok \in BOOLEAN :
          IF commit_ok
          THEN /\ questions' =
                     CASE qx.op = "create_question" ->
                            Append(questions, NewQuestion(qx.db_filename))
                       [] qx.op = "update_question" /\ qx.sql_changed ->
                            [questions EXCEPT ![qx.question].db_file_path = qx.db_filename]
                       [] OTHER -> questions
               /\ qx' = [qx EXCEPT !.pc = "idle",
                                   !.status = IF qx.op = "create_question" THEN 201 ELSE 200]
          ELSE /\ UNCHANGED questions
               /\ qx' = [qx EXCEPT !.pc = "except", !.raised = "Exception",
                                   !.failure = "commit"]
    /\ UNCHANGED <<lifecycleVars, execVars, attempts, px, progress, qdir>>

\* the handlers of lines 83-98 and 259-276: the database session is rolled
\* back; SQLValidationError and DatabaseGenerationError become 400, any
\* other exception 500
QuestionExcept ==
    /\ qx.pc = "except"
    /\ qx' = [qx EXCEPT !.pc = "idle",
                        !.status = IF qx.raised \in {"SQLValidationError",
                                                     "DatabaseGenerationError"}
                                   THEN 400 ELSE 500]
    /\ UNCHANGED <<lifecycleVars, execVars, attempts, px, progress, questions, qdir>>

\* delete_question, lines 297-316: is_deleted is set, the file is removed
\* and the change committed; a commit that raises leaves the handler
DeleteQuestion(q) ==
    /\ qx.pc = "idle"
    /\ IF ~QuestionFound(q)
       THEN /\ qx' = [QxIdle EXCEPT !.op = "delete_question", !.question = q,
                                    !.status = 404, !.issued = qx.issued]
            /\ UNCHANGED <<questions, qdir>>
       ELSE \E io_ok, commit_ok \in BOOLEAN :
              /\ qdir' = delete_question_database(qdir, questions[q].db_file_path, io_ok)
              /\ questions' = IF commit_ok
                              THEN [questions EXCEPT ![q].is_deleted = 1]
                              ELSE questions
              /\ qx' = [QxIdle EXCEPT !.op = "delete_question", !.question = q,
                                      !.raised = IF commit_ok THEN "none" ELSE "Exception",
                                      !.failure = IF commit_ok THEN "none" ELSE "commit",
                                      !.status = IF commit_ok THEN 204 ELSE 500,
                                      !.issued = qx.issued]
    /\ UNCHANGED <<lifecycleVars, execVars, attempts, px, progress>>

(***************************************************************************)
(* Specifications.                                                         *)
(***************************************************************************)
\* no executor call is in progress
ExecIdle ==
    /\ client = "none"
    /\ platform = "unix"
    /\ qfiles = [p \in QuestionPaths |-> NoFile]
    /\ roPc = "idle"
    /\ ro = RoIdle
    /\ roConns = 0
    /\ calls = 0
    /\ lq = LqIdle
    /\ workers = [w \in WorkerSlots |-> WorkerNone]
    /\ PracticeIdle

SessionInit == LifecycleInit /\ ExecIdle

SpecSession == SessionInit /\ [][LifecycleNext]_vars

\* SpecTerminate: one stop_lab request on a running lab whose two students
\* have active sessions, with nothing else going on.  A session database is
\* the template copy, a copy the student has changed, or is missing; the
\* sessions have attempt rows or none.  The request thread keeps running.
TerminateInit ==
    /\ labs = [l \in Labs |-> [is_published |-> 1, is_running |-> 1, is_deleted |-> 0]]
    /\ sessions = <<NewLabSession(1, 1, get_student_session_path(1, 1)),
                    NewLabSession(1, 2, get_student_session_path(1, 2))>>
    /\ labAttempts \in {<<>>,
                        <<NewLabAttempt(1, 1, 1, TRUE)>>,
                        <<NewLabAttempt(1, 1, 1, TRUE), NewLabAttempt(2, 1, 2, FALSE)>>}
    /\ files \in {fs \in [Paths -> {NoFile, TemplateContent(1),
                                     ApplyWriteTo(TemplateContent(1))}] :
                     \A p \in TemplatePaths : fs[p] = TemplateContent(1)}
    /\ pc = [t \in Threads |-> "idle"]
    /\ req = [t \in Threads |-> IdleReq]
    /\ nreq = MaxRequests - 1
    /\ ExecIdle

TerminateNext ==
    \E t \in Threads :
        \/ \E l \in Labs : StopLabFind(t, l)
        \/ TerminateAllQuery(t)
        \/ TerminateAllLoop(t)
        \/ TerminateCommit(t)
        \/ TerminateExists(t)
        \/ TerminateRemove(t)
        \/ TerminateReturn(t)
        \/ StopLabCommit(t)

SpecTerminate == TerminateInit /\ [][TerminateNext]_vars /\ WF_vars(TerminateNext)

\* SpecSweep: the sweep runs while students start and reset sessions of a
\* running lab.
SweepInit == SessionInit

SweepNext ==
    \E t \in Threads :
        \/ SweepQuery(t)
        \/ SweepGlob(t)
        \/ SweepFile(t)
        \/ SweepReturn(t)
        \/ \E l \in Labs, u \in Users : StartSessionLab(t, l, u)
        \/ StartSessionExisting(t)
        \/ StartSessionReturn(t)
        \/ StartSessionCopy(t)
        \/ StartSessionInsert(t)
        \/ \E l \in Labs, u \in Users : ResetSessionFind(t, l, u)
        \/ ResetSessionDelete(t)
        \/ ResetSessionCopy(t)
        \/ ResetSessionReturn(t)

SpecSweep == SweepInit /\ [][SweepNext]_vars

\* SpecSweepAlone: one sweep and nothing else.  The table holds any sessions,
\* active or ended, and any of the session files is on disk.
SessionRows ==
    {[NewLabSession(l, u, get_student_session_path(l, u))
        EXCEPT !.is_active = a, !.ended = (a = 0)] :
     l \in Labs, u \in Users, a \in {0, 1}}

SweepAloneInit ==
    /\ labs = [l \in Labs |-> [is_published |-> 1, is_running |-> 1, is_deleted |-> 0]]
    /\ sessions \in UNION {[1..n -> SessionRows] : n \in 0..MaxSessions}
    /\ labAttempts = <<>>
    /\ files \in {fs \in [Paths -> {NoFile, TemplateContent(1)}] :
                     \A p \in TemplatePaths : fs[p] = TemplateContent(1)}
    /\ pc = [t \in Threads |-> "idle"]
    /\ req = [t \in Threads |-> IdleReq]
    /\ nreq = MaxRequests - 1
    /\ ExecIdle

SweepAloneNext ==
    \E t \in Threads :
        \/ SweepQuery(t)
        \/ SweepGlob(t)
        \/ SweepFile(t)
        \/ SweepReturn(t)

SpecSweepAlone == SweepAloneInit /\ [][SweepAloneNext]_vars

\* SpecCopy: copy_template_to_session is called again and again for the
\* students of a lab, whose template is there or missing and may be deleted
\* between calls.  A session path holds no file, a template copy or a copy
\* the student has changed.
CopyInit ==
    /\ labs = [l \in Labs |-> [is_published |-> 1, is_running |-> 1, is_deleted |-> 0]]
    /\ sessions = <<>>
    /\ labAttempts = <<>>
    /\ files \in {fs \in [Paths -> {NoFile, TemplateContent(1),
                                     ApplyWriteTo(TemplateContent(1))}] :
                     \A p \in TemplatePaths : fs[p] \in {NoFile, TemplateContent(p[2])}}
    /\ pc = [t \in Threads |-> "idle"]
    /\ req = [t \in Threads |-> IdleReq]
    /\ nreq = 0
    /\ ExecIdle

CopyNext ==
    \E t \in Threads :
        \/ \E l \in Labs, u \in Users : CopyCall(t, l, u)
        \/ CopyReturn(t)
        \/ \E l \in Labs : DeleteTemplateCall(t, l)

SpecCopy == CopyInit /\ [][CopyNext]_vars

\* SpecReset: student 1 of lab 1 has an active session, runs statements on
\* the session database and asks once for a reset, on either platform.  The
\* session database is the template copy or has been changed already.
ResetInit ==
    /\ labs = [l \in Labs |-> [is_published |-> 1, is_running |-> 1, is_deleted |-> 0]]
    /\ sessions = <<NewLabSession(1, 1, OwnPath)>>
    /\ labAttempts = <<>>
    /\ \E content \in {TemplateContent(1), ApplyWriteTo(TemplateContent(1))} :
         files = [p \in Paths |-> IF p \in TemplatePaths THEN TemplateContent(p[2])
                                  ELSE IF p = OwnPath THEN content ELSE NoFile]
    /\ pc = [t \in Threads |-> "idle"]
    /\ req = [t \in Threads |-> IdleReq]
    /\ nreq = MaxRequests - 1
    /\ client = "lab"
    /\ platform \in {"unix", "windows"}
    /\ qfiles = [p \in QuestionPaths |-> NoFile]
    /\ roPc = "idle"
    /\ ro = RoIdle
    /\ roConns = 0
    /\ calls = 0
    /\ lq = LqIdle
    /\ workers = [w \in WorkerSlots |-> WorkerNone]
    /\ PracticeIdle

ResetNext ==
    \/ LabStatement
    \/ \E w \in WorkerSlots : WConnect(w)
    \/ \E w \in WorkerSlots : WExecute(w)
    \/ \E w \in WorkerSlots : WPost(w)
    \/ \E w \in WorkerSlots : WClose(w)
    \/ LabJoinFinished
    \/ LabJoinTimeout
    \/ LabCheck
    \/ LabHandle
    \/ LabReturn
    \/ \E t \in Threads :
        \/ \E l \in Labs, u \in Users : ResetSessionFind(t, l, u)
        \/ ResetSessionDelete(t)
        \/ ResetSessionCopy(t)
        \/ ResetSessionReturn(t)

SpecReset == ResetInit /\ [][ResetNext]_vars

\* SpecCreate: one request and nothing else: update_lab of a stopped lab,
\* which rebuilds the template, or a call of get_schema_info.  The old
\* template is there or missing.
CreateInit ==
    /\ labs = [l \in Labs |-> [is_published |-> 1, is_running |-> 0, is_deleted |-> 0]]
    /\ sessions = <<>>
    /\ labAttempts = <<>>
    /\ files \in {fs \in [Paths -> {NoFile, TemplateContent(1)}] :
                     \A p \in SessionPaths : fs[p] = NoFile}
    /\ pc = [t \in Threads |-> "idle"]
    /\ req = [t \in Threads |-> IdleReq]
    /\ nreq = MaxRequests - 1
    /\ client = "none"
    /\ platform \in {"unix", "windows"}
    /\ qfiles = [p \in QuestionPaths |-> NoFile]
    /\ roPc = "idle"
    /\ ro = RoIdle
    /\ roConns = 0
    /\ calls = 0
    /\ lq = LqIdle
    /\ workers = [w \in WorkerSlots |-> WorkerNone]
    /\ PracticeIdle

CreateNext ==
    \E t \in Threads :
        \/ \E l \in Labs : UpdateLabFind(t, l)
        \/ CreateTemplateRemove(t)
        \/ CreateTemplateConnect(t)
        \/ CreateTemplateSchema(t)
        \/ CreateTemplateData(t)
        \/ CreateTemplateVerify(t)
        \/ CreateTemplateCleanup(t)
        \/ CreateTemplateExcept(t)
        \/ CreateTemplateReturn(t)
        \/ UpdateLabCommit(t)
        \/ \E p \in TemplatePaths : SchemaInfoCall(t, p)
        \/ SchemaInfoReturn(t)

SpecCreate == CreateInit /\ [][CreateNext]_vars

\* SpecRebuild: staff update and start a published lab, which is stopped at
\* first, while students start sessions of it.
RebuildInit ==
    /\ labs = [l \in Labs |-> [is_published |-> 1, is_running |-> 0, is_deleted |-> 0]]
    /\ sessions = <<>>
    /\ labAttempts = <<>>
    /\ files = [p \in Paths |-> IF p \in TemplatePaths
                                THEN TemplateContent(p[2]) ELSE NoFile]
    /\ pc = [t \in Threads |-> "idle"]
    /\ req = [t \in Threads |-> IdleReq]
    /\ nreq = 0
    /\ ExecIdle

RebuildNext ==
    \E t \in Threads :
        \/ \E l \in Labs : UpdateLabFind(t, l)
        \/ CreateTemplateRemove(t)
        \/ CreateTemplateConnect(t)
        \/ CreateTemplateSchema(t)
        \/ CreateTemplateData(t)
        \/ CreateTemplateVerify(t)
        \/ CreateTemplateCleanup(t)
        \/ CreateTemplateExcept(t)
        \/ CreateTemplateReturn(t)
        \/ UpdateLabCommit(t)
        \/ \E l \in Labs : StartLabCheck(t, l)
        \/ StartLabCommit(t)
        \/ \E l \in Labs, u \in Users : StartSessionLab(t, l, u)
        \/ StartSessionExisting(t)
        \/ StartSessionReturn(t)
        \/ StartSessionCopy(t)
        \/ StartSessionInsert(t)

SpecRebuild == RebuildInit /\ [][RebuildNext]_vars

\* SpecExec: a client calls one of the two executors, one call at a time.
\* A practice client calls execute_student_query on a question database; a
\* lab client is student 1 of lab 1, whose session is active, and calls
\* execute_lab_query on the session database.  Student 2 has an active
\* session of the same lab, or none.
ExecInit ==
    /\ labs = [l \in Labs |-> [is_published |-> 1, is_running |-> 1, is_deleted |-> 0]]
    /\ \E other \in BOOLEAN :
         /\ sessions = IF other
                       THEN <<NewLabSession(1, 1, OwnPath),
                              NewLabSession(1, 2, get_student_session_path(1, 2))>>
                       ELSE <<NewLabSession(1, 1, OwnPath)>>
         /\ files = [p \in Paths |->
                       IF p \in TemplatePaths \/ p = OwnPath \/ other
                       THEN TemplateContent(1) ELSE NoFile]
    /\ labAttempts = <<>>
    /\ pc = [t \in Threads |-> "idle"]
    /\ req = [t \in Threads |-> IdleReq]
    /\ nreq = 0
    /\ client \in {"practice", "lab"}
    /\ ROInit
    /\ lq = LqIdle
    /\ workers = [w \in WorkerSlots |-> WorkerNone]
    /\ PracticeIdle

ExecNext ==
    \/ RORequest
    \/ ROSafetyCheck
    \/ \E p \in QuestionPaths : ROConnect(p)
    \/ \E thread \in {"main", "worker"} : ROEnterTimeout(thread)
    \/ \E eff \in Effects : ROExecute(eff)
    \/ ROClose
    \/ ROHandle
    \/ ROReturn
    \/ LabRequest
    \/ \E w \in WorkerSlots : WConnect(w)
    \/ \E w \in WorkerSlots : WExecute(w)
    \/ \E w \in WorkerSlots : WPost(w)
    \/ \E w \in WorkerSlots : WClose(w)
    \/ LabJoinFinished
    \/ LabJoinTimeout
    \/ LabCheck
    \/ LabHandle
    \/ LabReturn

SpecExec == ExecInit /\ [][ExecNext]_vars

\* SpecHash: generate_hash applied to each result set of the model
HashInit ==
    /\ LifecycleInit
    /\ client = "none"
    /\ platform = "unix"
    /\ qfiles = [p \in QuestionPaths |-> NoFile]
    /\ roPc = "idle"
    /\ ro = RoIdle
    /\ roConns = 0
    /\ calls = 0
    /\ lq = LqIdle
    /\ workers = [w \in WorkerSlots |-> WorkerNone]
    /\ attempts = <<>>
    /\ progress = <<>>
    /\ CatalogIdle
    /\ \E rs \in ResultSets :
          px = [PxIdle EXCEPT !.pc = "input", !.columns = rs.columns, !.rows = rs.rows]

HashNext == GenerateHash

SpecHash == HashInit /\ [][HashNext]_vars

\* SpecPractice: requests to the practice execute endpoint for one
\* question, whose reference result is any result generate_hash hashes
PracticeInit ==
    /\ LifecycleInit
    /\ client = "none"
    /\ platform = "unix"
    /\ qfiles = [p \in QuestionPaths |-> NoFile]
    /\ roPc = "idle"
    /\ ro = RoIdle
    /\ roConns = 0
    /\ calls = 0
    /\ lq = LqIdle
    /\ workers = [w \in WorkerSlots |-> WorkerNone]
    /\ attempts = <<>>
    /\ progress = <<>>
    /\ CatalogIdle
    /\ \E reference \in PracticeResultSets :
          /\ generate_hash(reference.rows, reference.columns).raised = "none"
          /\ px = [PxIdle EXCEPT
                     !.stored = generate_hash(reference.rows, reference.columns).digest]

PracticeNext ==
    \/ PracticeExecute
    \/ PracticeValidate
    \/ PracticeSave
    \/ PracticeRaise

SpecPractice == PracticeInit /\ [][PracticeNext]_vars

\* SpecQuestion: requests to the question endpoints, served one after the
\* other, starting without questions
QuestionInit ==
    /\ LifecycleInit
    /\ client = "none"
    /\ platform \in {"unix", "windows"}
    /\ qfiles = [p \in QuestionPaths |-> NoFile]
    /\ roPc = "idle"
    /\ ro = RoIdle
    /\ roConns = 0
    /\ calls = 0
    /\ lq = LqIdle
    /\ workers = [w \in WorkerSlots |-> WorkerNone]
    /\ PracticeIdle

QuestionNext ==
    \/ CreateQuestion
    \/ \E q \in 1..MaxQuestions : UpdateQuestion(q)
    \/ UpdateQuestionDeleteOld
    \/ CreateSqliteFromSql
    \/ AnswerHash
    \/ QuestionCommit
    \/ QuestionExcept
    \/ \E q \in 1..MaxQuestions : DeleteQuestion(q)

SpecQuestion == QuestionInit /\ [][QuestionNext]_vars

(***************************************************************************)
(* Properties of the session lifecycle (SpecSession).                      *)
(***************************************************************************)

\* C1: in every reachable state there is at most one lab_sessions row with
\* is_active = 1 for any (lab_id, user_id) pair.
C1_AtMostOneActiveSession ==
    \A l \in Labs, u \in Users : Cardinality(ActiveSessionsOf(l, u)) <= 1

\* C9: when the transaction of terminate_session has committed, the function
\* returns True and the session row has is_active = 0, whatever happened to
\* the file: deleted, locked on every attempt, another removal error, or no
\* file at all.
C9_TerminateReturnsTrue ==
    \A t \in Threads :
        (pc[t] = "ts_ret" /\ req[t].outcome # "aborted") =>
            /\ req[t].outcome \in {"deleted", "locked_all", "other_error", "absent"}
            /\ req[t].ret = TRUE
            /\ sessions[req[t].sid].is_active = 0

\* terminate_session has used up its retries on a locked file and returns
C9_ReturnedAfterAllRetriesLocked ==
    \E t \in Threads :
        /\ pc[t] = "ts_ret"
        /\ req[t].outcome = "locked_all"
        /\ req[t].k = MaxRetries - 1
        /\ Exists(files, sessions[req[t].sid].db_file_path)

\* C10: whenever terminate_session is at the file-existence test or inside
\* its removal loop, the row of its session is committed with is_active = 0
\* and an end time: no file is removed for a row still committed as active.
C10_CommitBeforeFileRemoval ==
    \A t \in Threads :
        pc[t] \in {"ts_exists", "ts_remove"} =>
            /\ sessions[req[t].sid].is_active = 0
            /\ sessions[req[t].sid].ended

\* terminate_session has removed the file of a session it committed inactive
C10_FileRemovedAfterCommit ==
    \E t \in Threads :
        /\ pc[t] = "ts_ret"
        /\ req[t].outcome = "deleted"
        /\ sessions[req[t].sid].is_active = 0
        /\ ~Exists(files, sessions[req[t].sid].db_file_path)

(***************************************************************************)
(* Properties of the executors (SpecExec).                                 *)
(***************************************************************************)

\* C2: no step of execute_lab_query on a student's own session database
\* changes the lab's template database or another student's session
\* database, whatever statement text is submitted (ATTACH of another file,
\* a change of an attached database, VACUUM INTO another path included).
C2_OnlyOwnFileChanges ==
    [][\A p \in OtherPaths : files[p].kind = "db" => files'[p] = files[p]]_vars

\* a student has attached the lab's template database and the call succeeded
C2_TemplateAttached ==
    /\ lq.pc = "done"
    /\ lq.query.stmts = <<Stmt("attach", get_lab_template_path(1))>>
    /\ lq.result.success
    /\ files[get_lab_template_path(1)] = TemplateContent(1)

\* C3: from the call of execute_student_query to its return the question
\* database files hold what they held before the call, for every query text,
\* accepted by the safety check or not.
C3_QuestionFileUnchanged ==
    roPc # "idle" => qfiles = ro.before

\* an accepted statement tried to change the database and was refused
C3_WriteRefused ==
    /\ roPc = "done"
    /\ ro.safe
    /\ ro.effect = "write"
    /\ ~ro.result.success
    /\ qfiles[ro.db_path] = QuestionContent

\* C4: when the safety check rejects a query, execute_query raises
\* UnsafeQueryError with no connection opened and no file touched, and
\* execute_student_query returns success = false, execution_time_ms 0 and
\* the rejection message.
C4_RejectedBeforeConnect ==
    (roPc \in {"connect", "alarm", "exec", "close", "handle", "done"} /\ ~ro.safe) =>
        /\ ro.exc = Exc("UnsafeQueryError", UnsafeMessage)
        /\ ro.opened = 0
        /\ ro.effect = ""
        /\ qfiles = ro.before
        /\ roPc \in {"handle", "done"}
        /\ roPc = "done" => ro.result = FailureResult(0, UnsafeMessage)

\* a query that begins with SELECT was rejected and the caller has the result
C4_RejectedSelect ==
    /\ roPc = "done"
    /\ ~ro.safe
    /\ StartsWith(Upper(Strip(ro.query)), SELECT)
    /\ ro.result.error_message = UnsafeMessage

BlockedKeywords == {
    <<"D", "R", "O", "P">>, <<"D", "E", "L", "E", "T", "E">>,
    <<"I", "N", "S", "E", "R", "T">>, <<"U", "P", "D", "A", "T", "E">>,
    <<"A", "L", "T", "E", "R">>, <<"C", "R", "E", "A", "T", "E">>,
    <<"T", "R", "U", "N", "C", "A", "T", "E">>, <<"R", "E", "P", "L", "A", "C", "E">>,
    <<"P", "R", "A", "G", "M", "A">>, <<"A", "T", "T", "A", "C", "H">>,
    <<"D", "E", "T", "A", "C", "H">> }

\* C5: _is_safe_query accepts a query if and only if the query is not empty
\* or blank, its trimmed upper-cased text begins with SELECT, and that text
\* holds none of the eleven blocked keywords as a substring.
C5_SafeQueryCharacterised ==
    roPc \in {"connect", "alarm", "exec", "close", "handle", "done"} =>
        (ro.safe <=>
            /\ \E i \in 1..Len(ro.query) : ro.query[i] \notin Whitespace
            /\ StartsWith(Upper(Strip(ro.query)), SELECT)
            /\ \A k \in BlockedKeywords : ~In(k, Upper(Strip(ro.query))))

\* a query in mixed case with blanks around it was accepted
C5_MixedCaseAccepted ==
    /\ roPc = "connect"
    /\ ro.safe
    /\ Head(ro.query) \in Whitespace
    /\ ~StartsWith(Strip(ro.query), SELECT)

WellFormedResult(r) ==
    IF r.success
    THEN r.error_message = None
    ELSE /\ r.columns = <<>>
         /\ r.results = <<>>
         /\ r.row_count = 0
         /\ r.error_message # None

\* C6: execute_student_query and execute_lab_query never raise: every call
\* ends with a result object; a failure has success = false, no columns, no
\* results, row_count 0 and an error message, a success has success = true
\* and error_message None.
C6_AlwaysWellFormedResult ==
    /\ roPc = "done" => (ro.result.raised = "none" /\ WellFormedResult(ro.result))
    /\ lq.pc = "done" => WellFormedResult(lq.result)

\* signal.signal refused to run in a worker thread and the caller got a
\* failure result
C6_UnexpectedErrorReported ==
    /\ roPc = "done"
    /\ ro.thread = "worker"
    /\ ro.exc.type = "QueryExecutionError"
    /\ ~ro.result.success

LabTimeoutResult ==
    LabFailureResult(LabTimeout * 1000, <<"Query timeout: ">> \o TimeoutMessage(LabTimeout))

C8_SlowQueryReportedAsTimeout ==
    (roPc = "done" /\ ro.effect = "slow") =>
        ro.result = FailureResult(ROTimeout * 1000,
                                  <<"Query timeout: ">> \o TimeoutMessage(ROTimeout))

(***************************************************************************)
(* Properties of session termination and cleanup.                          *)
(***************************************************************************)

\* C11: when the transaction of terminate_session fails (deleting the
\* attempt rows or committing), the step rolls back and returns False: the
\* session rows and the attempt rows are what they were, no file changes,
\* and the function returns without going on to the file removal.
C11_AbortRollsBack ==
    [][\A t \in Threads :
          /\ (pc[t] = "ts_commit" /\ pc'[t] = "ts_ret") =>
                /\ req'[t].ret = FALSE
                /\ sessions' = sessions
                /\ labAttempts' = labAttempts
                /\ files' = files
          /\ (pc[t] = "ts_ret" /\ req[t].outcome = "aborted") =>
                pc'[t] \notin {"ts_exists", "ts_remove"}]_vars

\* terminate_session has failed on an active session that has attempt rows
\* and a database file
C11_AbortedWithAttemptRows ==
    \E t \in Threads :
        /\ pc[t] = "ts_ret"
        /\ req[t].outcome = "aborted"
        /\ ~req[t].ret
        /\ sessions[req[t].sid].is_active = 1
        /\ \E i \in 1..Len(labAttempts) : labAttempts[i].session_id = req[t].sid
        /\ Exists(files, sessions[req[t].sid].db_file_path)

\* C12: terminate_session makes at most 5 attempts to remove the file and
\* always comes to its return: a locked file before the last attempt leads
\* to the next attempt, a removal that succeeds ends the loop with the file
\* gone, and the loop index never passes max_retries - 1.
C12_BoundedRetries ==
    /\ [](\A t \in Threads : pc[t] = "ts_remove" => req[t].k \in 0..(MaxRetries - 1))
    /\ [][\A t \in Threads :
            LET path == sessions[req[t].sid].db_file_path IN
            /\ (pc[t] = "ts_remove" /\ pc'[t] = "ts_remove" /\ req'[t] # req[t]) =>
                  (req'[t].k = req[t].k + 1 /\ files' = files)
            /\ (pc[t] = "ts_remove" /\ Exists(files, path) /\ ~Exists(files', path)) =>
                  (pc'[t] = "ts_ret" /\ req'[t].outcome = "deleted" /\ req'[t].ret)]_vars
    /\ \A t \in Threads : (pc[t] = "ts_remove") ~> (pc[t] = "ts_ret")

\* the file was locked on four attempts and removed on the fifth
C12_DeletedOnLastAttempt ==
    \E t \in Threads :
        /\ pc[t] = "ts_ret"
        /\ req[t].outcome = "deleted"
        /\ req[t].k = MaxRetries - 1
        /\ ~Exists(files, sessions[req[t].sid].db_file_path)

\* C13: when terminate_all_lab_sessions has returned, terminate_session has
\* been tried on every session that was active when it started, the number
\* it returns is the number of those sessions that have is_active = 0, and
\* no step takes a session back from is_active = 0.
C13_TerminateAllCounts ==
    /\ [](\A t \in Threads :
            pc[t] = "sl_commit" =>
                /\ req[t].attempted = req[t].targets
                /\ req[t].count =
                      Cardinality({s \in req[t].targets : sessions[s].is_active = 0}))
    /\ [][\A s \in SessionIds :
            sessions[s].is_active = 0 => sessions'[s].is_active = 0]_vars

\* terminate_all_lab_sessions has returned 1: the first session could not be
\* terminated, the second one was
C13_FirstFailedSecondTerminated ==
    \E t \in Threads :
        /\ pc[t] = "sl_commit"
        /\ req[t].targets = {1, 2}
        /\ req[t].count = 1
        /\ sessions[1].is_active = 1
        /\ sessions[2].is_active = 0

\* C14: once stop_lab, unpublish_lab or delete_lab of a running lab has
\* committed is_running = 0, no LabSession of that lab is active, whatever
\* start_session requests for the lab run at the same time.  (is_running is 0
\* only before the first start_lab and from the commit of one of these three
\* handlers until the next start_lab.)
C14_StoppedLabHasNoActiveSession ==
    \A l \in Labs : labs[l].is_running = 0 => ActiveSessionsOfLab(l) = {}

\* C15: the sweep never deletes the database file of a session that is
\* active when the sweep finishes: when cleanup_orphan_session_files is about
\* to return, every active session whose path the sweep removed has its file.
C15_SweepKeepsActiveSessionFiles ==
    \A t \in Threads :
        pc[t] = "sw_ret" =>
            \A s \in SessionIds :
                (sessions[s].is_active = 1 /\ sessions[s].db_file_path \in req[t].removed)
                    => Exists(files, sessions[s].db_file_path)

\* C16: run with nothing else going on and every removal succeeding, the
\* sweep deletes exactly the session files on disk that are not the
\* db_file_path of an active session, leaves every other file as it was, and
\* returns the number of files it deleted.
C16_SweepDeletesExactlyOrphans ==
    \A t \in Threads :
        (pc[t] = "sw_ret" /\ ~req[t].failed) =>
            LET orphans == {p \in SessionPaths :
                               Exists(req[t].before, p) /\ p \notin ActivePaths}
            IN  /\ files = [p \in Paths |-> IF p \in orphans THEN NoFile
                                                             ELSE req[t].before[p]]
                /\ req[t].count = Cardinality(orphans)

\* the sweep returns after deleting one orphan and keeping an active
\* session's file
C16_OrphanDeletedActiveKept ==
    \E t \in Threads :
        /\ pc[t] = "sw_ret"
        /\ ~req[t].failed
        /\ req[t].count = 1
        /\ \E p \in ActivePaths : Exists(files, p)

\* C17: when the student already has an active session of the lab,
\* start_session answers with the id of one of these sessions and changes
\* nothing: its existing-session step and its return add no LabSession row,
\* do not go on to copy_template_to_session, and leave every file, the
\* student's changed session database included, as it was.
C17_ExistingSessionReturnedUnchanged ==
    [][\A t \in Threads :
         /\ (/\ pc[t] = "ss_existing"
             /\ pc'[t] # "ss_existing"
             /\ ActiveSessionsOf(req[t].lab, req[t].user) # {})
                => /\ pc'[t] = "ss_ret"
                   /\ req'[t].sid \in ActiveSessionsOf(req[t].lab, req[t].user)
                   /\ sessions' = sessions
                   /\ labAttempts' = labAttempts
                   /\ files' = files
         /\ (pc[t] = "ss_ret" /\ pc'[t] # "ss_ret")
                => /\ pc'[t] = "idle"
                   /\ sessions' = sessions
                   /\ labAttempts' = labAttempts
                   /\ files' = files]_vars

\* start_session is about to return an existing session whose database the
\* student has changed
C17_ReturnsSessionWithMutations ==
    \E t \in Threads :
        /\ pc[t] = "ss_ret"
        /\ sessions[req[t].sid].is_active = 1
        /\ files[sessions[req[t].sid].db_file_path].muts > 0

(***************************************************************************)
(* Properties of copy_template_to_session.                                 *)
(***************************************************************************)
\* C19: copy_template_to_session raises LabDatabaseError when the lab's
\* template file does not exist, and then no file has changed: a session file
\* that was already there for the same lab and student is left as it was.
C19_MissingTemplateRaisesAndKeepsFiles ==
    [][\A t \in Threads :
         (/\ pc[t] = "idle"
          /\ pc'[t] = "cp_ret"
          /\ ~Exists(files, get_lab_template_path(req'[t].lab)))
            => /\ req'[t].ret = FALSE
               /\ files' = files]_vars

\* the call raised for a missing template while the student's changed
\* session file was on disk, and the file is still there
C19_RaisedWithSessionFilePresent ==
    \E t \in Threads :
        /\ pc[t] = "cp_ret"
        /\ ~req[t].ret
        /\ ~Exists(req[t].before, get_lab_template_path(req[t].lab))
        /\ req[t].before[get_student_session_path(req[t].lab, req[t].user)].muts > 0
        /\ files = req[t].before

C18_ResetFileIsTemplateCopy ==
    \A t \in Threads :
        (pc[t] = "rs_ret" /\ calls = req[t].issued)
            => files[sessions[req[t].sid].db_file_path] =
                   files[get_lab_template_path(req[t].lab)]

(***************************************************************************)
(* Properties of template creation.                                        *)
(***************************************************************************)
\* C21: whenever create_lab_template fails on the schema script, on the data
\* script, for want of a table or on an unexpected error, it raises
\* LabDatabaseError and no file is at the lab's template path afterwards.
C21_FailureLeavesNoTemplate ==
    [][\A t \in Threads :
         (/\ pc[t] # "ct_ret"
          /\ pc'[t] = "ct_ret"
          /\ req'[t].failure \in {"schema", "data", "no_tables", "unexpected"})
            => /\ req'[t].raised = "LabDatabaseError"
               /\ ~Exists(files', get_lab_template_path(req'[t].lab))]_vars

\* C22: no two executions of create_lab_template for the same lab overlap,
\* and copy_template_to_session never runs for a lab whose template is being
\* rebuilt.
C22_RebuildsSerialized ==
    /\ [](\A t1, t2 \in Threads :
            (t1 # t2 /\ InCreateTemplate(t1) /\ InCreateTemplate(t2))
                => req[t1].lab # req[t2].lab)
    /\ [][\A t1, t2 \in Threads :
            (pc[t1] = "ss_copy" /\ pc'[t1] # "ss_copy" /\ InCreateTemplate(t2))
                => req[t1].lab # req[t2].lab]_vars

\* C29: a connection that create_lab_template or get_schema_info has opened
\* is closed when the call returns or raises.
C29_ConnectionClosedAtReturn ==
    \A t \in Threads : pc[t] \in {"ct_ret", "si_ret"} => ~req[t].conn

(***************************************************************************)
(* Properties of the answer validator.                                     *)
(***************************************************************************)
\* the permutations of 1..n, for each number of rows a result set has
IndexPermutations ==
    [n \in 0..MaxRows |->
        {g \in [1..n -> 1..n] : \A i, j \in 1..n : g[i] = g[j] => i = j}]

\* the row lists that are permutations of rows
RowPermutations(rows) ==
    {[i \in 1..Len(rows) |-> rows[f[i]]] : f \in IndexPermutations[Len(rows)]}

\* C23: for every column list and every two row lists that are
\* permutations of each other, generate_hash has the same outcome: the
\* digest returned for a result set is the one returned for each
\* permutation of its rows.
C23_PermutationsHashEqual ==
    px.pc = "hashed" =>
        \A other \in RowPermutations(px.rows) :
            generate_hash(other, px.columns) = px.hash

\* a result set with two different rows, which sorted() has to reorder,
\* has been hashed
C23_ReorderedRowsHashed ==
    /\ px.pc = "hashed"
    /\ px.hash.raised = "none"
    /\ Len(px.rows) = 2
    /\ px.rows[1] # px.rows[2]
    /\ normalize_results(px.rows, px.columns)
         # [r \in 1..2 |-> RowDict(px.rows[r], px.columns)]

\* the result sets that differ from rs in the value of a single cell
CellVariants(rs) ==
    {[rs EXCEPT !.rows[r][i] = v] :
        r \in 1..Len(rs.rows), i \in 1..Len(rs.columns), v \in CellValues} \ {rs}

\* result sets with the rows of rs and one column less (the last one
\* dropped) or one more (a cell appended to each row)
ColumnVariants(rs) ==
    {[columns |-> SubSeq(rs.columns, 1, Len(rs.columns) - 1),
      rows |-> [r \in 1..Len(rs.rows) |-> SubSeq(rs.rows[r], 1, Len(rs.columns) - 1)]] :
        n \in {Len(rs.columns)} \ {1}}
    \cup {[columns |-> Append(rs.columns, c),
           rows |-> [r \in 1..Len(rs.rows) |-> Append(rs.rows[r], v)]] :
            c \in ColumnNames, v \in CellValues}

\* result sets with the columns of rs and one row less or one row more
RowVariants(rs) ==
    {[rs EXCEPT !.rows = SubSeq(rs.rows, 1, Len(rs.rows) - 1)] :
        n \in {Len(rs.rows)} \ {0}}
    \cup {[rs EXCEPT !.rows = Append(rs.rows, row)] :
            row \in [1..Len(rs.columns) -> CellValues]}

\* C24: two result sets that differ in a single cell value, in the number
\* of columns or in the number of rows, and that generate_hash hashes,
\* have different canonical forms and so different digests.
C24_DifferentResultsHashDifferent ==
    (px.pc = "hashed" /\ px.hash.raised = "none") =>
        LET rs == [columns |-> px.columns, rows |-> px.rows]
        IN \A other \in CellVariants(rs) \cup ColumnVariants(rs) \cup RowVariants(rs) :
            LET hash == generate_hash(other.rows, other.columns)
            IN hash.raised = "none" => hash.digest # px.hash.digest

\* the result ('a') has been hashed, and the result (' a'), which differs
\* from it in its single cell, has the same digest
C24_PaddedTextSameDigest ==
    /\ px.pc = "hashed"
    /\ px.columns = << <<"n", "a", "m", "e">> >>
    /\ px.rows = << <<PyStr(<<"a">>)>> >>
    /\ px.hash.raised = "none"
    /\ generate_hash(<< <<PyStr(<<" ", "a">>)>> >>, px.columns) = px.hash

\* the rows with the cells of the two columns exchanged
SwapColumns(rows) == [r \in 1..Len(rows) |-> <<rows[r][2], rows[r][1]>>]

\* C25: for a reference result with columns (id, name) and digest F, the
\* same rows returned with the columns in the other order (name, id) get a
\* digest different from F, and the same columns with the rows in another
\* order get F.
C25_ColumnOrderChangesHashRowOrderDoesNot ==
    (/\ px.pc = "hashed"
     /\ px.columns = << <<"i", "d">>, <<"n", "a", "m", "e">> >>
     /\ px.rows # <<>>
     /\ px.hash.raised = "none")
        => /\ generate_hash(SwapColumns(px.rows), << <<"n", "a", "m", "e">>, <<"i", "d">> >>).digest
                # px.hash.digest
           /\ \A other \in RowPermutations(px.rows) :
                generate_hash(other, px.columns).digest = px.hash.digest

\* the reference result (id, name) = (1, 'a') has been hashed, and the
\* submission (name, id) = ('a', 1) has the same digest
C25_SwappedColumnsSameDigest ==
    /\ px.pc = "hashed"
    /\ px.columns = << <<"i", "d">>, <<"n", "a", "m", "e">> >>
    /\ px.rows = << <<PyInt(<<"1">>), PyStr(<<"a">>)>> >>
    /\ px.hash.raised = "none"
    /\ generate_hash(<< <<PyStr(<<"a">>), PyInt(<<"1">>)>> >>,
                     << <<"n", "a", "m", "e">>, <<"i", "d">> >>) = px.hash

\* C26: generate_hash has no error outcome: for every result set,
\* including the empty one and rows holding bytes, it returns a digest of
\* 64 hexadecimal characters and does not raise.
C26_HashNeverRaises ==
    px.pc = "hashed" =>
        /\ px.hash.raised = "none"
        /\ px.hash.digest.length = HexDigestLength

\* a result set with a bytes value that is not UTF-8 has been passed to
\* generate_hash, which raised
C26_UndecodableBytesRaise ==
    /\ px.pc = "hashed"
    /\ px.columns = << <<"i", "d">> >>
    /\ px.rows = << <<PyBytes(<<"\\xff">>, FALSE)>> >>
    /\ px.hash.raised = "UnicodeDecodeError"

(***************************************************************************)
(* Properties of the practice execute endpoint.                            *)
(***************************************************************************)
\* C27: a submission is recorded as correct if and only if its execution
\* succeeded and the digest of its result equals the question's stored
\* correct_answer_hash: the attempt a request adds has is_correct = 1
\* exactly in that case, so a failed, rejected or timed-out execution is
\* never recorded as correct.
C27_CorrectIffSuccessAndHashEqual ==
    [][Len(attempts') = Len(attempts) + 1 =>
        (attempts'[Len(attempts')].is_correct = 1
            <=> /\ px.result.success
                /\ generate_hash(px.result.raw_results, px.result.columns)
                     = [raised |-> "none", digest |-> px.stored])]_vars

\* an attempt recorded as correct and an attempt of a failed execution
\* recorded as not correct
C27_CorrectAndFailedRecorded ==
    /\ Len(attempts) = 2
    /\ attempts[1].is_correct = 1
    /\ attempts[1].error_message = None
    /\ attempts[2].is_correct = 0
    /\ attempts[2].error_message # None

\* C30: every statement run through the practice execute endpoint appends
\* exactly one attempt record, whatever its outcome, and no request
\* changes an attempt record that exists: a request ends with the attempts
\* it found followed by one new record.
C30_EveryStatementAppendsOneAttempt ==
    [][/\ SubSeq(attempts', 1, Len(attempts)) = attempts
       /\ (px.pc # "idle" /\ px'.pc = "idle")
            => Len(attempts') = Len(attempts) + 1]_vars

\* a request whose statement ran successfully has ended with no attempt
\* recorded
C30_StatementRanWithoutAttempt ==
    /\ px.pc = "idle"
    /\ px.status = 500
    /\ px.result.success
    /\ attempts = <<>>

(***************************************************************************)
(* Properties of the lab executor's result (SpecExec).                     *)
(***************************************************************************)
\* C28: when the trimmed, upper-cased statement begins with SELECT the
\* worker hands over the rows and column names the cursor fetched, and
\* nothing is written; after any other statement that ran without error
\* it commits, so that each database the statement changed holds the
\* change on disk, where the next statement's connection finds it, and
\* hands over no columns and no rows.  A caller that finds the worker
\* ended without an error returns what was handed over with success=true.
C28_SelectFetchesOthersCommit ==
    /\ [][\A w \in WorkerSlots :
            (workers[w].pc = "w_post" /\ workers'[w].pc # "w_post") =>
                IF StartsWith(Upper(Strip(workers[w].query.text)), SELECT)
                THEN /\ workers'[w].container =
                            [columns |-> workers[w].columns,
                             results |-> workers[w].results,
                             error |-> "", done |-> TRUE]
                     /\ files' = files
                ELSE /\ workers'[w].container =
                            [columns |-> <<>>, results |-> <<>>,
                             error |-> "", done |-> TRUE]
                     /\ \A p \in Paths :
                            files'[p] = IF p \in workers[w].pending
                                        THEN ApplyWrite(files[p]) ELSE files[p]]_vars
    /\ [](\A w \in WorkerSlots :
            (/\ lq.pc = "done" /\ lq.cur = w /\ ~lq.alive
             /\ workers[w].container.error = "")
                => /\ lq.result.success
                   /\ lq.result.error_message = None
                   /\ lq.result.columns = workers[w].container.columns
                   /\ lq.result.results = RowDicts(workers[w].container.columns,
                                                    workers[w].container.results)
                   /\ lq.result.row_count = Len(workers[w].container.results))

\* the caller has the result of a statement that is not a SELECT: success
\* with no columns and no rows, and the change is in the session database
C28_WriteCommittedAfterSelect ==
    /\ lq.pc = "done"
    /\ calls = 2
    /\ ~StartsWith(Upper(Strip(lq.query.text)), SELECT)
    /\ lq.query.stmts = <<Stmt("write", NoTarget)>>
    /\ lq.result.success
    /\ lq.result.columns = <<>>
    /\ lq.result.results = <<>>
    /\ files[lq.path] = ApplyWrite(TemplateContent(1))

(***************************************************************************)
(* Properties of the lab execute endpoint (SpecSession).                   *)
(***************************************************************************)
\* C31: the lab execute endpoint runs a statement against a session
\* database only when the session belongs to the requesting user, is
\* active and its lab is running; a request that is refused runs nothing
\* and adds no attempt record, and a request for a session whose lab is not
\* running goes on to terminate the session.
C31_StatementOnlyOnActiveRunningSession ==
    [][\A t \in Threads :
        /\ (pc[t] = "ex_query" /\ pc'[t] = "ex_save")
              => /\ sessions[req[t].sid].user_id = req[t].user
                 /\ sessions[req[t].sid].is_active = 1
                 /\ labs[sessions[req[t].sid].lab_id].is_running = 1
        /\ (pc[t] = "idle" /\ pc'[t] = "ts_commit" /\ req'[t].op = "execute_query")
              => /\ labs[req'[t].lab].is_running = 0
                 /\ labAttempts' = labAttempts /\ files' = files
        /\ (pc[t] = "idle" /\ pc'[t] = "idle" /\ nreq' = nreq + 1)
              => (labAttempts' = labAttempts /\ files' = files)]_vars

\* a statement has been run for a session that had been terminated: the
\* session is inactive, its lab is stopped, and the connection has created
\* a new file at the path of the database that termination removed
C31_StatementRunOnTerminatedSession ==
    \E t \in Threads :
        /\ pc[t] = "ex_save"
        /\ sessions[req[t].sid].is_active = 0
        /\ labs[req[t].lab].is_running = 0
        /\ files[sessions[req[t].sid].db_file_path].kind = "empty"

\* C32: in every reachable state, every lab session with is_active = 1 has
\* an existing database file at its db_file_path.
C32_ActiveSessionHasFile ==
    \A s \in SessionIds :
        sessions[s].is_active = 1 => Exists(files, sessions[s].db_file_path)

\* after a start_session and one more request, with no request in progress
\* and the lab still running, an active session has no database file: the
\* reset removed the file and its copy failed
C32_ActiveSessionWithoutFileAfterReset ==
    /\ \A t \in Threads : pc[t] = "idle"
    /\ nreq = 2
    /\ \A l \in Labs : labs[l].is_running = 1 /\ Exists(files, get_lab_template_path(l))
    /\ \E s \in SessionIds :
          /\ sessions[s].is_active = 1
          /\ ~Exists(files, sessions[s].db_file_path)

\* C33: the file removal of terminate_session removes only the database of
\* the session it terminates: when it removes the file, no active session
\* is stored at that path.
C33_TerminateRemovesOnlyOwnFile ==
    [][\A t \in Threads :
        (pc[t] = "ts_remove" /\ files' # files)
            => \A s \in SessionIds :
                  sessions[s].is_active = 1
                     => sessions[s].db_file_path # sessions[req[t].sid].db_file_path]_vars

\* terminate_session has removed the file at the path of the session it
\* ended, where the same student's new active session is stored, and the
\* new session has no file
C33_NewSessionFileRemoved ==
    \E t \in Threads, s \in SessionIds :
        /\ pc[t] = "ts_ret"
        /\ req[t].outcome = "deleted"
        /\ s # req[t].sid
        /\ sessions[req[t].sid].is_active = 0
        /\ sessions[s].is_active = 1
        /\ sessions[s].db_file_path = sessions[req[t].sid].db_file_path
        /\ ~Exists(files, sessions[s].db_file_path)

(***************************************************************************)
(* Properties of the lab state (SpecSession).                              *)
(***************************************************************************)
\* C34: in every reachable state a lab with is_running = 1 has
\* is_published = 1 and is_deleted = 0.
C34_RunningLabIsPublishedAndNotDeleted ==
    \A l \in Labs :
        labs[l].is_running = 1 => (labs[l].is_published = 1 /\ labs[l].is_deleted = 0)

\* no request is in progress, and a lab is running although it is not
\* published or is deleted
C34_RunningLabUnpublishedOrDeleted ==
    /\ \A t \in Threads : pc[t] = "idle"
    /\ \E l \in Labs :
          /\ labs[l].is_running = 1
          /\ (labs[l].is_published = 0 \/ labs[l].is_deleted = 1)

AttemptsOf(user_id, question_id) ==
    {i \in 1..Len(attempts) : /\ attempts[i].user_id = user_id
                              /\ attempts[i].question_id = question_id}

CorrectAttemptsOf(user_id, question_id) ==
    {i \in AttemptsOf(user_id, question_id) : attempts[i].is_correct = 1}

ProgressRowsOf(user_id, question_id) ==
    {i \in 1..Len(progress) : /\ progress[i].user_id = user_id
                              /\ progress[i].question_id = question_id}

\* C38: after any sequence of practice execute requests each (user,
\* question) has at most one progress record, whose attempts_count is the
\* number of the Attempt records of that user and question, whose completed
\* flag never goes from 1 back to 0, and whose first_completed_at is set
\* once, at the first correct attempt.
C38_ProgressMatchesAttempts ==
    /\ [](\A u \in PracticeUsers :
            LET rows == ProgressRowsOf(u, 1)
                correct == CorrectAttemptsOf(u, 1)
            IN /\ Cardinality(rows) <= 1
               /\ (rows = {}) <=> (AttemptsOf(u, 1) = {})
               /\ \A i \in rows :
                    /\ progress[i].attempts_count = Cardinality(AttemptsOf(u, 1))
                    /\ (progress[i].completed = 1) <=> (correct # {})
                    /\ (correct = {}) => progress[i].first_completed_at = 0
                    /\ (correct # {}) =>
                          /\ progress[i].first_completed_at \in correct
                          /\ \A j \in correct : progress[i].first_completed_at <= j)
    /\ [][\A i \in 1..Len(progress) :
            /\ Len(progress') >= Len(progress)
            /\ progress'[i].completed >= progress[i].completed
            /\ progress[i].first_completed_at # 0
                  => progress'[i].first_completed_at = progress[i].first_completed_at]_vars

\* a user answered correctly twice: the record counts two attempts and keeps
\* the time of the first
C38_SecondCorrectAttemptCounted ==
    /\ px.pc = "idle"
    /\ Len(attempts) = 2
    /\ \A i \in 1..2 : attempts[i].user_id = 1 /\ attempts[i].is_correct = 1
    /\ Len(progress) = 1
    /\ progress[1].attempts_count = 2
    /\ progress[1].completed = 1
    /\ progress[1].first_completed_at = 1

(***************************************************************************)
(* Question records and their database files.                              *)
(***************************************************************************)
\* the names of the files of the question directory that no question row
\* names
UnreferencedFiles ==
    {n \in FileNames : /\ Exists(qdir, n)
                       /\ \A q \in 1..Len(questions) : questions[q].db_file_path # n}

\* C36: an update_question that fails while it regenerates the database
\* leaves the question row as it was and the file named by its db_file_path
\* in place, and between requests the db_file_path of every question that is
\* not deleted names an existing file.
C36_FailedUpdateKeepsQuestionDatabase ==
    /\ [][(qx.pc = "except" /\ qx'.pc = "idle" /\ qx.op = "update_question")
            => /\ questions' = questions
               /\ Exists(qdir', questions[qx.question].db_file_path)]_vars
    /\ [](qx.pc = "idle" =>
            \A q \in 1..Len(questions) :
                questions[q].is_deleted = 0 => Exists(qdir, questions[q].db_file_path))

\* the first question was created, and the update that followed was refused
\* by the validation of its SQL: the row still names the first file, which
\* has been removed
C36_QuestionWithoutDatabaseAfterRefusedUpdate ==
    /\ qx.pc = "idle"
    /\ qx.op = "update_question"
    /\ qx.status = 400
    /\ qx.raised = "SQLValidationError"
    /\ qx.issued = 1
    /\ Len(questions) = 1
    /\ questions[1] = NewQuestion(1)
    /\ ~Exists(qdir, 1)

\* C37: a create_question that fails after the database file was built,
\* because the answer query fails or the insert of the row fails, leaves no
\* file of its own behind: between requests every file of the question
\* directory is named by some question row.
C37_FailedCreateLeavesNoFile ==
    /\ [][(qx.pc = "except" /\ qx'.pc = "idle" /\ qx.op = "create_question"
            /\ qx.failure \in {"sql_error", "hash_raises", "commit"})
            => ~Exists(qdir', qx.db_filename)]_vars
    /\ [](qx.pc = "idle" => UnreferencedFiles = {})

\* the only request so far was a create_question whose answer query failed
\* on the database it had built: no question exists, and the file is there
C37_OrphanFileAfterFailedAnswerQuery ==
    /\ qx.pc = "idle"
    /\ qx.op = "create_question"
    /\ qx.status = 400
    /\ qx.failure = "sql_error"
    /\ qx.issued = 1
    /\ questions = <<>>
    /\ qdir[1] = QuestionDb(1)

(***************************************************************************)
(* The lab executor's reading of the worker's result container.            *)
(***************************************************************************)
\* what execute_query has handed to execute_lab_query comes from a worker
\* thread that has ended: a success carries the columns and rows the worker
\* stored, which for a SELECT are all that the cursor returned, and a stored
\* error is raised as LabQueryExecutionError
ContainerReadAfterWorkerEnded ==
    LET worker == workers[lq.cur] IN
    /\ lq.exc.type # "LabQueryTimeoutError" => worker.pc = "ended"
    /\ lq.result.success =>
          /\ worker.container.done
          /\ worker.container.error = ""
          /\ lq.result.columns = worker.container.columns
          /\ lq.result.results = RowDicts(worker.container.columns, worker.container.results)
          /\ lq.result.row_count = Len(worker.container.results)
          /\ IsSelectText(lq.query.text) =>
                /\ worker.container.columns = worker.columns
                /\ worker.container.results = worker.results
    /\ (worker.pc = "ended" /\ worker.container.error # "") =>
          /\ ~lq.result.success
          /\ lq.alive \/ lq.exc.type = "LabQueryExecutionError"

====
